---- MODULE Spec2Model ----
(***************************************************************************)
(* Model of the spectra demo: the resource table (ResourceManager), the    *)
(* actor runtime (Addr / MsgQueue), and the runtime, entity, graphics and  *)
(* logic systems.                                                          *)
(***************************************************************************)
EXTENDS Integers, Sequences, FiniteSets, TLC

\* ------------------------------------------------------------------------
\* Bounds
\* ------------------------------------------------------------------------
\* number of distinct resource names the table is driven with
NumNames == 2
\* directory entries met by the entity system's startup walk
MaxEntries == 2
\* SIGINTs delivered to the process
MaxSigInt == 1
\* Kill messages a holder of the logic system's address sends it
MaxLogicKills == 2

Names == 1 .. NumNames
Values == {"v1", "v2"}
Paths == {"p1", "p2"}
\* handles a caller can hold: every id the table can have minted, plus one more
HandleIds == 0 .. NumNames

\* ------------------------------------------------------------------------
\* Option<T> and HashMap helpers
\* ------------------------------------------------------------------------
None == << >>
Some(x) == << x >>
IsSome(o) == Len(o) = 1
Unwrap(o) == o[1]

EmptyMap == [k \in {} |-> 0]
\* HashMap::insert: binds k to v, replacing any previous binding
MapInsert(m, k, v) == [x \in (DOMAIN m) \cup {k} |-> IF x = k THEN v ELSE m[x]]
\* HashMap::remove: drops the binding of k, if any
MapRemove(m, k) == [x \in (DOMAIN m) \ {k} |-> m[x]]
\* HashMap::get
MapGet(m, k) == IF k \in DOMAIN m THEN Some(m[k]) ELSE None

\* ------------------------------------------------------------------------
\* ResourceManager<T> (src/src/system/resource.rs)
\* A table is a record; every method is an operator returning the table
\* after the call (self) and the returned value (ret).
\* ------------------------------------------------------------------------
ResourceManager_new ==
  [ next_handle |-> 0,
    resources |-> EmptyMap,
    translations |-> EmptyMap,
    path_deps_mappings |-> EmptyMap ]

gen_handle_no_increment(self) ==
  [ self |-> self, ret |-> self.next_handle ]

\* id is a u32; the tables explored here mint at most NumNames handles, far
\* from the point where `+= 1` overflows
gen_handle(self) ==
  [ self |-> [self EXCEPT !.next_handle = self.next_handle + 1],
    ret |-> self.next_handle ]

ask_binds(self, name) ==
  IF name \in DOMAIN self.translations
  THEN [ self |-> self, ret |-> Some(self.translations[name]) ]
  ELSE [ self |-> [self EXCEPT !.translations = MapInsert(@, name, self.next_handle),
                               !.next_handle = self.next_handle + 1],
         ret |-> None ]

ask(self, name) ==
  [ self |-> self, ret |-> MapGet(self.translations, name) ]

get(self, handle) ==
  [ self |-> self, ret |-> MapGet(self.resources, handle) ]

wrap_replace_rebinds(self, handle, name, resource) ==
  [self EXCEPT !.resources = MapInsert(@, handle, resource),
               !.translations = [n \in DOMAIN @ |-> handle]]

wrap_replace_keeps_old(self, handle, name, resource) ==
  IF handle \in DOMAIN self.resources THEN self
  ELSE [self EXCEPT !.resources = MapInsert(@, handle, resource)]

wrap_replace_mints(self, handle, name, resource) ==
  LET g == gen_handle(self) IN
  [g.self EXCEPT !.resources = MapInsert(@, g.ret, resource),
                 !.translations = MapInsert(@, name, g.ret)]

wrap_replace(self, handle, name, resource) ==
  [self EXCEPT !.resources = MapInsert(@, handle, resource)]

wrap_create_without_name(self, name, resource) ==
  LET g == gen_handle(self) IN
  [ self |-> [g.self EXCEPT !.resources = MapInsert(@, g.ret, resource)],
    ret |-> g.ret ]

wrap_create(self, name, resource) ==
  LET g == gen_handle(self) IN
  [ self |-> [g.self EXCEPT !.resources = MapInsert(@, g.ret, resource),
                            !.translations = MapInsert(@, name, g.ret)],
    ret |-> g.ret ]

register_decoding_metadata_resets(self, handle, path_deps) ==
  [self EXCEPT !.path_deps_mappings =
     [p \in {q \in DOMAIN @ : @[q] # handle} \cup path_deps |->
        IF p \in path_deps THEN handle ELSE @[p]]]

register_decoding_metadata_keeps_owner(self, handle, path_deps) ==
  [self EXCEPT !.path_deps_mappings =
     [p \in (DOMAIN @) \cup path_deps |-> IF p \in DOMAIN @ THEN @[p] ELSE handle]]

\* the loop inserts every path of the HashSet once, so the iteration order
\* does not show in the result
register_decoding_metadata(self, handle, path_deps) ==
  [self EXCEPT !.path_deps_mappings =
     [p \in (DOMAIN @) \cup path_deps |-> IF p \in path_deps THEN handle ELSE @[p]]]

wrap_creates_when_no_value(self, resource, name, decoding_metadata) ==
  LET a == ask(self, name)
      w == IF IsSome(a.ret) /\ IsSome(get(self, Unwrap(a.ret)).ret)
           THEN [ self |-> wrap_replace(self, Unwrap(a.ret), name, resource),
                  ret |-> Unwrap(a.ret) ]
           ELSE wrap_create(self, name, resource)
  IN  IF IsSome(decoding_metadata)
      THEN [ self |-> register_decoding_metadata(w.self, w.ret, Unwrap(decoding_metadata)),
             ret |-> w.ret ]
      ELSE w

\* decoding_metadata is None or Some(set of dependency paths)
wrap(self, resource, name, decoding_metadata) ==
  LET a == ask(self, name)
      w == IF IsSome(a.ret)
           THEN [ self |-> wrap_replace(self, Unwrap(a.ret), name, resource),
                  ret |-> Unwrap(a.ret) ]
           ELSE wrap_create(self, name, resource)
  IN  IF IsSome(decoding_metadata)
      THEN [ self |-> register_decoding_metadata(w.self, w.ret, Unwrap(decoding_metadata)),
             ret |-> w.ret ]
      ELSE w

reserve_does_not_bind(self, name) ==
  LET a == ask(self, name) IN
  IF IsSome(a.ret) THEN [ self |-> self, ret |-> Unwrap(a.ret) ]
  ELSE gen_handle(self)

reserve_binds_without_minting(self, name) ==
  LET a == ask(self, name) IN
  IF IsSome(a.ret) THEN [ self |-> self, ret |-> Unwrap(a.ret) ]
  ELSE [ self |-> [self EXCEPT !.translations = MapInsert(@, name, self.next_handle)],
         ret |-> self.next_handle ]

reserve(self, name) ==
  LET a == ask(self, name) IN
  IF IsSome(a.ret)
  THEN [ self |-> self, ret |-> Unwrap(a.ret) ]
  ELSE LET g == gen_handle(self) IN
       [ self |-> [g.self EXCEPT !.translations = MapInsert(@, name, g.ret)],
         ret |-> g.ret ]

remove_unbinds(self, handle) ==
  [ self |-> [self EXCEPT
       !.resources = MapRemove(@, handle),
       !.translations = [n \in {x \in DOMAIN @ : @[x] # handle} |-> @[n]]],
    ret |-> MapGet(self.resources, handle) ]

remove(self, handle) ==
  [ self |-> [self EXCEPT !.resources = MapRemove(@, handle)],
    ret |-> MapGet(self.resources, handle) ]

\* ------------------------------------------------------------------------
\* Messages (src/src/runtime.rs, src/src/entity.rs, src/src/graphics.rs,
\* src/src/runtime/logic.rs)
\* ------------------------------------------------------------------------
Kill == [type |-> "Kill"]
SystemExit(u) == [type |-> "SystemExit", uid |-> u]
Loaded(handle, entity) == [type |-> "EntityEvent", handle |-> handle, entity |-> entity]
Mesh(path) == [kind |-> "Mesh", of |-> path]

Mailboxes == {"runtime", "entity", "graphics", "logic"}
Threads == {"main", "runtime", "entity", "logic", "ctrlc"}

\* ------------------------------------------------------------------------
\* Addr / MsgQueue (src/src/system.rs)
\* ------------------------------------------------------------------------
send_msg_enqueues_when_dropped(q, rcv, to, msg) ==
  [ ok |-> rcv[to], queue |-> [q EXCEPT ![to] = Append(@, msg)] ]

\* mpsc::Sender::send fails exactly when the Receiver has been dropped
send_msg(q, rcv, to, msg) ==
  IF rcv[to]
  THEN [ ok |-> TRUE, queue |-> [q EXCEPT ![to] = Append(@, msg)] ]
  ELSE [ ok |-> FALSE, queue |-> q ]

recv_takes_last(q, from) ==
  [ ret |-> Some(q[from][Len(q[from])]),
    queue |-> [q EXCEPT ![from] = SubSeq(@, 1, Len(@) - 1)] ]

\* MsgQueue::recv on a mailbox that holds a message (it blocks until one is
\* there): the message sent first is taken out
recv(q, from) ==
  [ ret |-> Some(Head(q[from])), queue |-> [q EXCEPT ![from] = Tail(@)] ]

\* MsgQueue::try_recv: the head of the mailbox, if any, without blocking
try_recv(q, from) ==
  IF q[from] = << >>
  THEN [ ret |-> None, queue |-> q ]
  ELSE [ ret |-> Some(Head(q[from])), queue |-> [q EXCEPT ![from] = Tail(@)] ]

\* ------------------------------------------------------------------------
\* What one turn of a system's message loop does with the message it got:
\* exit  = it sends SystemExit(own uid) to the runtime address
\* brk   = it leaves the loop
\* ------------------------------------------------------------------------
EntitySystem_start_never_breaks(msg) ==
  [ exit |-> TRUE, brk |-> FALSE ]

\* loop { match recv() { Some(Kill) | None => { send SystemExit; break } } }
EntitySystem_start_loop(msg) ==
  [ exit |-> TRUE, brk |-> TRUE ]

GraphicsSystem_startup_msg(msg) ==
  IF msg.type = "Kill"
  THEN [ exit |-> TRUE, brk |-> TRUE, accept |-> FALSE ]
  ELSE [ exit |-> FALSE, brk |-> FALSE, accept |-> TRUE ]

LogicSystem_startup_loop(msg) ==
  IF msg.type = "Kill"
  THEN [ exit |-> TRUE, brk |-> TRUE ]
  ELSE [ exit |-> FALSE, brk |-> FALSE ]

\* EntitySystem::start runs traverse_directory first
EntitySystem_start_walking(state) == state = "Traversing"

EntitySystem_start_receives_during_walk(state) == state \in {"Traversing", "Listening"}

\* EntitySystem::start calls recv once traverse_directory has returned
EntitySystem_start_receiving(state) == state = "Listening"

\* the lifecycle position of EntitySystem::start after the directory walk
EntitySystem_start_after_walk == "Listening"

\* the lifecycle position of EntitySystem::start after a turn of its loop
EntitySystem_start_restarts_on_kill(brk) ==
  IF brk THEN "Traversing" ELSE "Listening"

EntitySystem_start_after_turn(brk) ==
  IF brk THEN "Terminating" ELSE "Listening"

accept_entity_keeps_first(meshes_, handle, entity, tess_ok) ==
  IF entity.kind = "Mesh" /\ tess_ok /\ handle \notin DOMAIN meshes_
  THEN MapInsert(meshes_, handle, entity.of)
  ELSE meshes_

\* GraphicsSystem::accept_entity / accept_mesh: a mesh whose tessellation
\* builds is stored under the delivered handle, anything else changes nothing
accept_entity(meshes_, handle, entity, tess_ok) ==
  IF entity.kind = "Mesh" /\ tess_ok
  THEN MapInsert(meshes_, handle, entity.of)
  ELSE meshes_

\* ------------------------------------------------------------------------
\* File names and the dispatch of a file (src/src/entity.rs)
\* A file name is the sequence of its dot-separated components, which is
\* what splitting on '.' gives: a.param.json is << "a", "param", "json" >>,
\* .obj is << "", "obj" >>, README is << "README" >>.
\* ------------------------------------------------------------------------
\* Path::extension: None without a dot, None for a name that begins with its
\* only dot, else what follows the final dot
Path_extension(name) ==
  IF Len(name) = 1 \/ (Len(name) = 2 /\ name[1] = "")
  THEN None
  ELSE Some(name[Len(name)])

\* Path::file_stem: the name without its extension
Path_file_stem(name) ==
  IF Path_extension(name) = None THEN name ELSE SubSeq(name, 1, Len(name) - 1)

extract_sub_extension_of_name(name) ==
  IF Len(name) >= 2 THEN Some(name[Len(name)]) ELSE None

\* rsplit('.') on the stem: its last component, if there is another one
extract_sub_extension(name) ==
  LET stem == Path_file_stem(name) IN
  IF Len(stem) >= 2 THEN Some(stem[Len(stem)]) ELSE None

\* the loader dispatch_json runs on a .json file
dispatch_json(name) ==
  LET sub_ext == extract_sub_extension(name) IN
  IF sub_ext = Some("param") THEN "load_parameters" ELSE "warn"

extension_based_dispatch_defaults_to_obj(ext, name) ==
  IF ext = "json" THEN dispatch_json(name) ELSE "load_obj"

\* the loader extension_based_dispatch runs on a file of extension ext
extension_based_dispatch(ext, name) ==
  CASE ext = "obj" -> "load_obj"
    [] ext = "json" -> dispatch_json(name)
    [] OTHER -> "warn"

\* traverse_directory, a regular file: the loader it runs, "warn" if none
traverse_directory_file(name) ==
  LET ext == Path_extension(name) IN
  IF IsSome(ext) THEN extension_based_dispatch(Unwrap(ext), name) ELSE "warn"

\* ------------------------------------------------------------------------
\* State
\* ------------------------------------------------------------------------
VARIABLES
  \* a ResourceManager driven through its public interface
  table,         \* the ResourceManager
  last,          \* the last call made on table: operation, arguments, result
  minted,        \* history: handles handed out for names not bound before, in order
  first_handle,  \* history: name -> handle returned by the first wrap/reserve of it
  path_owner,    \* history: path -> handle returned by the latest wrap declaring it
  removed,       \* history: Some(handle whose value the latest successful remove took out)
  \* the running program
  uid,           \* system -> its SystemUID
  systems,       \* Runtime::systems
  queue,         \* mailbox -> messages sent and not yet received
  receiver,      \* mailbox -> its MsgQueue has not been dropped
  thread,        \* thread -> "running", "returned", "panicked", or "absent"
  rt_pc,         \* where the runtime thread is in its loop
  main_pc,       \* where the main thread is in GraphicsSystem::startup
  entity_state,  \* lifecycle position of EntitySystem::start
  visited,       \* number of directory entries the walk has visited
  resources,     \* EntitySystem::resources
  meshes,        \* GraphicsSystem::meshes
  quit,          \* number of () sent on the quit channel
  sigints,       \* SIGINTs delivered so far
  logic_kills,   \* Kill messages sent to the logic system so far
  lifecycle,     \* history: lifecycle positions of the entity system, in order
  exit_sent,     \* history: system -> uids of the SystemExit sends it made
  kill_seen,     \* history: system -> it has received a Kill
  after_kill,    \* history: system -> messages it received after its first Kill
  last_entry,    \* history: what the latest visit of the walk did
  \* a publisher and its subscribers, driven through Publisher
  pubsub,
  \* the file-name and decoder-dispatch functions, applied to drawn inputs
  disp,
  \* one mailbox, its senders and its receiver, driven through Addr and MsgQueue
  chan,
  \* the handle-to-mesh map of a graphics system, driven through accept_entity
  gfx

tableVars == << table, last, minted, first_handle, path_owner, removed >>
progVars == << uid, systems, queue, receiver, thread, rt_pc, main_pc, entity_state,
               visited, resources, meshes, quit, sigints, logic_kills,
               lifecycle, exit_sent, kill_seen, after_kill, last_entry >>
harnessVars == << pubsub, disp, chan, gfx >>
vars == << tableVars, progVars, harnessVars >>

Metadata == {None} \cup {Some(d) : d \in (SUBSET Paths) \ {{}}}

TableInit ==
  /\ table = ResourceManager_new
  /\ last = [op |-> "new"]
  /\ minted = << >>
  /\ first_handle = EmptyMap
  /\ path_owner = EmptyMap
  /\ removed = None

Systems == {"runtime", "entity", "graphics", "logic"}

\* The program once Runtime::startup has created the systems, subscribed the
\* graphics system to the entity system, installed the SIGINT handler and
\* spawned the entity and runtime threads: u gives the SystemUIDs drawn by
\* SystemUID::new. main.rs starts no logic system (running = the threads of
\* main.rs); a LogicSystem runs in a process of its own, whose main thread
\* holds its address and the runtime MsgQueue (running = main and logic).
ProgInit(u, running) ==
  /\ uid = u
  /\ systems = {u["runtime"], u["entity"], u["graphics"]}
  /\ queue = [m \in Mailboxes |-> << >>]
  /\ receiver = [m \in Mailboxes |-> TRUE]
  /\ thread = [t \in Threads |-> IF t \in running THEN "running" ELSE "absent"]
  /\ rt_pc = "recv"
  /\ main_pc = IF "logic" \in running THEN "harness" ELSE "msgs"
  /\ entity_state = "Traversing"
  /\ visited = 0
  /\ resources = ResourceManager_new
  /\ meshes = EmptyMap
  /\ quit = 0
  /\ sigints = 0
  /\ logic_kills = 0
  /\ lifecycle = << "Traversing" >>
  /\ exit_sent = [s \in Systems |-> << >>]
  /\ kill_seen = [s \in Systems |-> FALSE]
  /\ after_kill = [s \in Systems |-> 0]
  /\ last_entry = [ wrapped |-> << >>, outcome |-> "none" ]

DistinctUIDs == [s \in Systems |->
  CASE s = "runtime" -> 1 [] s = "entity" -> 2 [] s = "graphics" -> 3 [] OTHER -> 4]

ProgramThreads == {"main", "runtime", "entity", "ctrlc"}

\* no mailbox and no graphics map driven on their own
UnitsIdle ==
  /\ chan = [ op |-> "idle" ]
  /\ gfx = [ op |-> "idle" ]

\* no publisher and no dispatch input
HarnessIdle ==
  /\ pubsub = [ op |-> "idle" ]
  /\ disp = [ op |-> "idle" ]
  /\ UnitsIdle

Init == TableInit /\ ProgInit(DistinctUIDs, ProgramThreads) /\ HarnessIdle

Wrap(resource, name, md) ==
  LET r == wrap(table, resource, name, md) IN
  /\ table' = r.self
  /\ last' = [op |-> "wrap", name |-> name, value |-> resource, ret |-> r.ret,
              \* the handle held a different value before the call
              replaced |-> /\ r.ret \in DOMAIN table.resources
                           /\ table.resources[r.ret] # resource,
              \* paths of md that a different handle owned before the call
              taken_over |-> IF IsSome(md)
                             THEN {p \in Unwrap(md) \cap DOMAIN path_owner :
                                     path_owner[p] # r.ret}
                             ELSE {}]
  /\ minted' = IF name \in DOMAIN first_handle THEN minted ELSE Append(minted, r.ret)
  /\ first_handle' = IF name \in DOMAIN first_handle THEN first_handle
                     ELSE MapInsert(first_handle, name, r.ret)
  /\ path_owner' = IF IsSome(md)
                   THEN [p \in (DOMAIN path_owner) \cup Unwrap(md) |->
                           IF p \in Unwrap(md) THEN r.ret ELSE path_owner[p]]
                   ELSE path_owner
  /\ UNCHANGED << removed, progVars, harnessVars >>

Reserve(name) ==
  LET r == reserve(table, name) IN
  /\ table' = r.self
  /\ last' = [op |-> "reserve", name |-> name, ret |-> r.ret]
  /\ minted' = IF name \in DOMAIN first_handle THEN minted ELSE Append(minted, r.ret)
  /\ first_handle' = IF name \in DOMAIN first_handle THEN first_handle
                     ELSE MapInsert(first_handle, name, r.ret)
  /\ UNCHANGED << path_owner, removed, progVars, harnessVars >>

Ask(name) ==
  LET r == ask(table, name) IN
  /\ table' = r.self
  /\ last' = [op |-> "ask", name |-> name, ret |-> r.ret]
  /\ UNCHANGED << minted, first_handle, path_owner, removed, progVars, harnessVars >>

Get(handle) ==
  LET r == get(table, handle) IN
  /\ table' = r.self
  /\ last' = [op |-> "get", handle |-> handle, ret |-> r.ret]
  /\ UNCHANGED << minted, first_handle, path_owner, removed, progVars, harnessVars >>

Remove(handle) ==
  LET r == remove(table, handle) IN
  /\ table' = r.self
  /\ last' = [op |-> "remove", handle |-> handle, ret |-> r.ret]
  /\ removed' = IF IsSome(r.ret) THEN Some(handle) ELSE removed
  /\ UNCHANGED << minted, first_handle, path_owner, progVars, harnessVars >>

Next ==
  \/ \E v \in Values, n \in Names, md \in Metadata : Wrap(v, n, md)
  \/ \E n \in Names : Reserve(n)
  \/ \E n \in Names : Ask(n)
  \/ \E h \in HandleIds : Get(h)
  \/ \E h \in HandleIds : Remove(h)

Spec == Init /\ [][Next]_vars

\* ------------------------------------------------------------------------
\* The program (src/src/runtime/main.rs): the main thread runs the graphics
\* system, one thread runs the runtime loop, one the entity system; SIGINT
\* runs the ctrlc handler.
\* ------------------------------------------------------------------------
\* SystemUID::new draws a random u16: the UIDs of two systems may be equal.
\* One assignment per pattern of equal UIDs.
UIDAssignments ==
  { u \in [Systems -> 1 .. 4] :
      /\ u["runtime"] = 1
      /\ u["entity"] <= 2
      /\ u["graphics"] <= u["entity"] + 1
      /\ u["logic"] = 4 }

InitProgram ==
  /\ TableInit
  /\ HarnessIdle
  /\ \E u \in UIDAssignments : ProgInit(u, ProgramThreads)

\* the process lives until its main thread returns or panics
ProcessAlive == thread["main"] = "running"
Running(t) == ProcessAlive /\ thread[t] = "running"

\* the subscribers of the entity system, in registration order
subscribers == << "graphics" >>

\* Publisher::subscribe: push on the Vec of subscribers
subscribe_prepends(subs, subscriber) == << subscriber >> \o subs

subscribe(subs, subscriber) == Append(subs, subscriber)

\* Publisher::publish: one send per subscriber, in order; the unwrap of a
\* failed send panics, so nothing is sent to the subscribers after it.
\* sent = the subscribers a send was made to, in order
RECURSIVE publish(_, _, _, _)
publish(q, rcv, subs, event) ==
  IF subs = << >> THEN [ ok |-> TRUE, queue |-> q, sent |-> << >> ]
  ELSE LET s == send_msg(q, rcv, Head(subs), event) IN
       IF s.ok
       THEN LET rest == publish(s.queue, rcv, Tail(subs), event) IN
            [ ok |-> rest.ok, queue |-> rest.queue, sent |-> << Head(subs) >> \o rest.sent ]
       ELSE [ ok |-> FALSE, queue |-> s.queue, sent |-> << Head(subs) >> ]

\* history of what system s did with the message msg it received
Note(s, msg, h) ==
  /\ kill_seen' = [kill_seen EXCEPT ![s] = @ \/ msg.type = "Kill"]
  /\ after_kill' = [after_kill EXCEPT ![s] = IF kill_seen[s] THEN @ + 1 ELSE @]
  /\ exit_sent' = [exit_sent EXCEPT ![s] = IF h.exit THEN Append(@, uid[s]) ELSE @]

\* A resource name is a string. The name of a mesh is the display of its
\* path, which no other file has; the name of a parameter is its key in the
\* JSON map. Both are written as pairs: << path, "" >> and << 0, key >>.
path_name(path) == << path, "" >>
param_name(key) == << 0, key >>

Parameter(path, key) == [kind |-> "Parameter", of |-> path, param |-> key]

\* The regular files the walk meets at a path: their name, whether their
\* content parses, and the keys they hold when read as a parameter file, in
\* the iteration order of the HashMap. A file that has no loader is never
\* opened.
Files(path) ==
  { [ path |-> path, name |-> f[1], well_formed |-> f[2], params |-> f[3] ] :
      f \in { << << "a", "obj" >>, TRUE, << >> >>,
              << << "a", "obj" >>, FALSE, << >> >>,
              << << "b", "param", "json" >>, TRUE, << "a" >> >>,
              << << "b", "param", "json" >>, TRUE, << >> >>,
              << << "b", "param", "json" >>, FALSE, << >> >>,
              << << "", "obj" >>, TRUE, << >> >>,
              << << "x", "shd", "json" >>, TRUE, << >> >>,
              << << "x", "json" >>, TRUE, << >> >>,
              << << "x", "txt" >>, TRUE, << >> >>,
              << << "README" >>, TRUE, << >> >> } }

\* what a loader leaves: the table, the mailboxes, ok = no send panicked,
\* the (handle, entity) pairs it wrapped, and how the decode went
Loaded_nothing(rs, q, outcome) ==
  [ resources |-> rs, queue |-> q, ok |-> TRUE, wrapped |-> << >>, outcome |-> outcome ]

\* Mesh::load_from_path: Ok for a file that reads and parses as one object
Mesh_load_from_path(file) == IF file.well_formed THEN "Ok" ELSE "Err"

Parameter_load_from_file_accepts_empty(file) ==
  IF file.well_formed THEN "Ok" ELSE "Err"

\* Parameter::load_from_file: Err on an unreadable file, on malformed JSON
\* and on an empty map (NoData)
Parameter_load_from_file(file) ==
  IF file.well_formed /\ file.params # << >> THEN "Ok" ELSE "Err"

load_obj_wraps_on_error(rs, q, rcv, file) ==
  LET mesh == Mesh(file.path)
      r == wrap(rs, mesh, path_name(file.path), None)
      pb == publish(q, rcv, subscribers, Loaded(r.ret, mesh))
  IN [ resources |-> r.self, queue |-> pb.queue, ok |-> pb.ok,
       wrapped |-> << [handle |-> r.ret, entity |-> mesh] >>,
       outcome |-> IF Mesh_load_from_path(file) = "Ok" THEN "decoded" ELSE "error" ]

\* load_obj: Mesh::load_from_path, then wrap under the path name and publish
load_obj(rs, q, rcv, file) ==
  IF Mesh_load_from_path(file) = "Ok"
  THEN LET mesh == Mesh(file.path)
           r == wrap(rs, mesh, path_name(file.path), None)
           pb == publish(q, rcv, subscribers, Loaded(r.ret, mesh))
       IN [ resources |-> r.self, queue |-> pb.queue, ok |-> pb.ok,
            wrapped |-> << [handle |-> r.ret, entity |-> mesh] >>, outcome |-> "decoded" ]
  ELSE Loaded_nothing(rs, q, "error")

\* the loop of load_parameters: one wrap per parameter
RECURSIVE wrap_parameters(_, _, _)
wrap_parameters(rs, path, params) ==
  IF params = << >> THEN [ resources |-> rs, wrapped |-> << >> ]
  ELSE LET entity == Parameter(path, Head(params))
           r == wrap(rs, entity, param_name(Head(params)), None)
           rest == wrap_parameters(r.self, path, Tail(params))
       IN [ resources |-> rest.resources,
            wrapped |-> << [handle |-> r.ret, entity |-> entity] >> \o rest.wrapped ]

\* load_parameters: every parameter of a map that loads is wrapped, and
\* nothing is published
load_parameters(rs, q, rcv, file) ==
  IF Parameter_load_from_file(file) = "Ok"
  THEN LET w == wrap_parameters(rs, file.path, file.params) IN
       [ resources |-> w.resources, queue |-> q, ok |-> TRUE,
         wrapped |-> w.wrapped, outcome |-> "decoded" ]
  ELSE Loaded_nothing(rs, q, "error")

\* traverse_directory, a regular file: what running its loader, if it has
\* one, leaves
traverse_file(rs, q, rcv, file) ==
  LET loader == traverse_directory_file(file.name) IN
  CASE loader = "load_obj" -> load_obj(rs, q, rcv, file)
    [] loader = "load_parameters" -> load_parameters(rs, q, rcv, file)
    [] OTHER -> Loaded_nothing(rs, q, "unclaimed")

\* the walk meets the regular file file
EntityVisitFile(file) ==
  LET d == traverse_file(resources, queue, receiver, file) IN
  /\ resources' = d.resources
  /\ queue' = d.queue
  /\ thread' = IF d.ok THEN thread ELSE [thread EXCEPT !["entity"] = "panicked"]
  /\ receiver' = IF d.ok THEN receiver ELSE [receiver EXCEPT !["entity"] = FALSE]
  /\ last_entry' = [ wrapped |-> d.wrapped,
                     outcome |-> IF d.ok THEN d.outcome ELSE "panic" ]

\* the walk meets a directory or an entry that cannot be read:
\* read_dir(path).unwrap() or dir_entry.unwrap() panics
EntityVisitUnreadable ==
  /\ thread' = [thread EXCEPT !["entity"] = "panicked"]
  /\ receiver' = [receiver EXCEPT !["entity"] = FALSE]
  /\ last_entry' = [ wrapped |-> << >>, outcome |-> "panic" ]
  /\ UNCHANGED << resources, queue >>

\* traverse_directory, one directory entry: the walk meets a further entry,
\* a regular file or an entry that cannot be read; the entry met i-th has
\* path i
EntityVisit ==
  /\ Running("entity")
  /\ EntitySystem_start_walking(entity_state)
  /\ visited < MaxEntries
  /\ visited' = visited + 1
  /\ \/ \E file \in Files(visited + 1) : EntityVisitFile(file)
     \/ EntityVisitUnreadable
  /\ UNCHANGED << tableVars, harnessVars, uid, systems, rt_pc, main_pc, entity_state, meshes,
                  quit, sigints, logic_kills, lifecycle, exit_sent, kill_seen, after_kill >>

\* traverse_directory on a root directory that cannot be opened:
\* read_dir(path).unwrap() panics in the thread EntitySystem::startup spawned
EntityRootUnreadable ==
  /\ Running("entity")
  /\ EntitySystem_start_walking(entity_state)
  /\ visited = 0
  /\ thread' = [thread EXCEPT !["entity"] = "panicked"]
  /\ receiver' = [receiver EXCEPT !["entity"] = FALSE]
  /\ last_entry' = [ wrapped |-> << >>, outcome |-> "no_root" ]
  /\ UNCHANGED << tableVars, harnessVars, uid, systems, queue, rt_pc, main_pc, entity_state,
                  visited, resources, meshes, quit, sigints, logic_kills, lifecycle,
                  exit_sent, kill_seen, after_kill >>

\* traverse_directory returns, there being no further entry: start enters
\* its loop
EntityWalkDone ==
  /\ Running("entity")
  /\ EntitySystem_start_walking(entity_state)
  /\ entity_state' = EntitySystem_start_after_walk
  /\ lifecycle' = IF entity_state' # entity_state THEN Append(lifecycle, entity_state')
                  ELSE lifecycle
  /\ UNCHANGED << tableVars, harnessVars, last_entry, uid, systems, queue, receiver, thread, rt_pc, main_pc, visited,
                  resources, meshes, quit, sigints, logic_kills, exit_sent, kill_seen,
                  after_kill >>

\* one turn of the loop of start: recv blocks until a message is there
\* MsgQueue::recv on a mailbox whose address clones are held by `holders`:
\* the oldest message if there is one, None once the mailbox is empty and every
\* clone of its address is dropped, and a blocked call otherwise.
MsgQueue_recv(q, from, holders) ==
  IF q[from] # << >>
  THEN [ blocks |-> FALSE, ret |-> recv(q, from).ret, queue |-> recv(q, from).queue ]
  ELSE [ blocks |-> holders # {}, ret |-> None, queue |-> q ]

EntityAddrHolders_runtime_only ==
  {t \in {"runtime"} : thread[t] = "running"}

\* The threads that own a clone of the entity system's address: the entity
\* thread (EntitySystem::addr) and the runtime thread (entity_system_addr,
\* moved into its closure), each until it ends.
EntityAddrHolders ==
  {t \in {"entity", "runtime"} : thread[t] = "running"}

EntityRecv ==
  /\ Running("entity")
  /\ EntitySystem_start_receiving(entity_state)
  /\ ~MsgQueue_recv(queue, "entity", EntityAddrHolders).blocks
  /\ LET r == MsgQueue_recv(queue, "entity", EntityAddrHolders)
         msg == IF IsSome(r.ret) THEN Unwrap(r.ret) ELSE [ type |-> "None" ]
         h == EntitySystem_start_loop(msg)
         q == r.queue
         s == IF h.exit THEN send_msg(q, receiver, "runtime", SystemExit(uid["entity"]))
              ELSE [ ok |-> TRUE, queue |-> q ]
     IN /\ Note("entity", msg, h)
        /\ queue' = s.queue
        /\ entity_state' = EntitySystem_start_after_turn(h.brk)
        /\ lifecycle' = IF entity_state' # entity_state THEN Append(lifecycle, entity_state')
                        ELSE lifecycle
        /\ thread' = [thread EXCEPT !["entity"] =
                        IF ~s.ok THEN "panicked" ELSE IF h.brk THEN "returned" ELSE @]
        /\ receiver' = [receiver EXCEPT !["entity"] = s.ok /\ ~h.brk]
  /\ UNCHANGED << tableVars, harnessVars, last_entry, uid, systems, rt_pc, main_pc, visited, resources, meshes, quit,
                  sigints, logic_kills >>

GraphicsRecv ==
  /\ Running("main")
  /\ main_pc = "msgs"
  /\ queue["graphics"] # << >>
  /\ LET r == recv(queue, "graphics") IN
     IF r.ret = None
     THEN /\ main_pc' = "events"
          /\ UNCHANGED << queue, receiver, thread, meshes, exit_sent, kill_seen, after_kill >>
     ELSE LET msg == Unwrap(r.ret)
              h == GraphicsSystem_startup_msg(msg)
              s == IF h.exit
                   THEN send_msg(r.queue, receiver, "runtime", SystemExit(uid["graphics"]))
                   ELSE [ ok |-> TRUE, queue |-> r.queue ]
          IN /\ Note("graphics", msg, h)
             /\ queue' = s.queue
             /\ \E tess_ok \in BOOLEAN :
                  meshes' = IF h.accept
                            THEN accept_entity(meshes, msg.handle, msg.entity, tess_ok)
                            ELSE meshes
             /\ thread' = [thread EXCEPT !["main"] = IF s.ok THEN @ ELSE "panicked"]
             /\ main_pc' = IF s.ok /\ h.brk THEN "wait_quit" ELSE main_pc
             /\ receiver' = [receiver EXCEPT !["graphics"] = ~(s.ok /\ h.brk)]
  /\ UNCHANGED << tableVars, harnessVars, last_entry, uid, systems, rt_pc, entity_state, visited, resources, quit,
                  sigints, logic_kills, lifecycle >>

\* GraphicsSystem::startup, the message loop: one try_recv
GraphicsTryRecv ==
  /\ Running("main")
  /\ main_pc = "msgs"
  /\ LET r == try_recv(queue, "graphics") IN
     IF r.ret = None
     THEN /\ main_pc' = "events"
          /\ UNCHANGED << queue, receiver, thread, meshes, exit_sent, kill_seen, after_kill >>
     ELSE LET msg == Unwrap(r.ret)
              h == GraphicsSystem_startup_msg(msg)
              s == IF h.exit
                   THEN send_msg(r.queue, receiver, "runtime", SystemExit(uid["graphics"]))
                   ELSE [ ok |-> TRUE, queue |-> r.queue ]
          IN /\ Note("graphics", msg, h)
             /\ queue' = s.queue
             /\ \E tess_ok \in BOOLEAN :
                  meshes' = IF h.accept
                            THEN accept_entity(meshes, msg.handle, msg.entity, tess_ok)
                            ELSE meshes
             /\ thread' = [thread EXCEPT !["main"] = IF s.ok THEN @ ELSE "panicked"]
             /\ main_pc' = IF s.ok /\ h.brk THEN "wait_quit" ELSE main_pc
             /\ receiver' = [receiver EXCEPT !["graphics"] = ~(s.ok /\ h.brk)]
  /\ UNCHANGED << tableVars, harnessVars, last_entry, uid, systems, rt_pc, entity_state, visited, resources, quit,
                  sigints, logic_kills, lifecycle >>

\* GraphicsSystem::startup, the window events of one frame: closing the window
\* (or Escape) reports the exit, asks the runtime to kill everybody and leaves
GraphicsEvents ==
  /\ Running("main")
  /\ main_pc = "events"
  /\ \E close \in BOOLEAN :
       IF close
       THEN LET s1 == send_msg(queue, receiver, "runtime", SystemExit(uid["graphics"]))
                s2 == send_msg(s1.queue, receiver, "runtime", Kill)
            IN /\ exit_sent' = [exit_sent EXCEPT !["graphics"] = Append(@, uid["graphics"])]
               /\ queue' = IF s1.ok THEN s2.queue ELSE s1.queue
               /\ thread' = [thread EXCEPT !["main"] = IF s1.ok /\ s2.ok THEN @ ELSE "panicked"]
               /\ main_pc' = IF s1.ok /\ s2.ok THEN "wait_quit" ELSE main_pc
               /\ receiver' = [receiver EXCEPT !["graphics"] = ~(s1.ok /\ s2.ok)]
       ELSE /\ main_pc' = "msgs"
            /\ UNCHANGED << exit_sent, queue, thread, receiver >>
  /\ UNCHANGED << tableVars, harnessVars, last_entry, uid, systems, rt_pc, entity_state, visited, resources, meshes,
                  quit, sigints, logic_kills, lifecycle, kill_seen, after_kill >>

\* Runtime::startup, has_quit.recv(): the process ends once quit was signalled
MainWaitQuit ==
  /\ Running("main")
  /\ main_pc = "wait_quit"
  /\ quit > 0
  /\ thread' = [thread EXCEPT !["main"] = "returned"]
  /\ UNCHANGED << tableVars, harnessVars, last_entry, uid, systems, queue, receiver, rt_pc, main_pc, entity_state,
                  visited, resources, meshes, quit, sigints, logic_kills, lifecycle,
                  exit_sent, kill_seen, after_kill >>

\* the end of one turn of the runtime loop, with the tracked set now being set_
RuntimeCheck(set_) ==
  IF set_ = {}
  THEN /\ quit' = quit + 1
       /\ thread' = [thread EXCEPT !["runtime"] = "returned"]
       /\ receiver' = [receiver EXCEPT !["runtime"] = FALSE]
       /\ rt_pc' = "done"
  ELSE /\ rt_pc' = "recv"
       /\ UNCHANGED << quit, thread, receiver >>

\* the runtime loop takes a message: SystemExit is handled at once, Kill
\* starts the cascade with the Kill sent to the entity system
RuntimeRecv ==
  /\ Running("runtime")
  /\ rt_pc = "recv"
  /\ queue["runtime"] # << >>
  /\ LET r == recv(queue, "runtime")
         msg == Unwrap(r.ret)
         q == r.queue
     IN IF msg.type = "Kill"
        THEN /\ queue' = send_msg(q, receiver, "entity", Kill).queue
             /\ rt_pc' = "kill_graphics"
             /\ kill_seen' = [kill_seen EXCEPT !["runtime"] = TRUE]
             /\ UNCHANGED << systems, quit, thread, receiver >>
        ELSE /\ queue' = q
             /\ systems' = systems \ {msg.uid}
             /\ RuntimeCheck(systems')
             /\ UNCHANGED kill_seen
  /\ UNCHANGED << tableVars, harnessVars, last_entry, uid, main_pc, entity_state, visited, resources, meshes, sigints,
                  logic_kills, lifecycle, exit_sent, after_kill >>

RuntimeKillGraphics ==
  /\ Running("runtime")
  /\ rt_pc = "kill_graphics"
  /\ queue' = send_msg(queue, receiver, "graphics", Kill).queue
  /\ rt_pc' = "kill_self"
  /\ UNCHANGED << tableVars, harnessVars, last_entry, uid, systems, receiver, thread, main_pc, entity_state, visited,
                  resources, meshes, quit, sigints, logic_kills, lifecycle, exit_sent,
                  kill_seen, after_kill >>

RuntimeKillSelf ==
  /\ Running("runtime")
  /\ rt_pc = "kill_self"
  /\ queue' = send_msg(queue, receiver, "runtime", SystemExit(uid["runtime"])).queue
  /\ exit_sent' = [exit_sent EXCEPT !["runtime"] = Append(@, uid["runtime"])]
  /\ RuntimeCheck(systems)
  /\ UNCHANGED << tableVars, harnessVars, last_entry, uid, systems, main_pc, entity_state, visited, resources, meshes,
                  sigints, logic_kills, lifecycle, kill_seen, after_kill >>

\* SIGINT: the ctrlc handler sends Kill to the runtime and unwraps the result
CtrlC ==
  /\ Running("ctrlc")
  /\ sigints < MaxSigInt
  /\ sigints' = sigints + 1
  /\ LET s == send_msg(queue, receiver, "runtime", Kill) IN
     /\ queue' = s.queue
     /\ thread' = [thread EXCEPT !["ctrlc"] = IF s.ok THEN @ ELSE "panicked"]
  /\ UNCHANGED << tableVars, harnessVars, last_entry, uid, systems, receiver, rt_pc, main_pc, entity_state, visited,
                  resources, meshes, quit, logic_kills, lifecycle, exit_sent, kill_seen,
                  after_kill >>

NextProgram ==
  \/ EntityRootUnreadable
  \/ EntityVisit
  \/ EntityWalkDone
  \/ EntityRecv
  \/ GraphicsTryRecv
  \/ GraphicsEvents
  \/ MainWaitQuit
  \/ RuntimeRecv
  \/ RuntimeKillGraphics
  \/ RuntimeKillSelf
  \/ CtrlC

SpecProgram == InitProgram /\ [][NextProgram]_vars

\* ------------------------------------------------------------------------
\* The logic system (src/src/runtime/logic.rs). main.rs does not start it:
\* it runs in a process whose main thread created it with a runtime address,
\* sends it Kill messages and may drop the runtime MsgQueue.
\* ------------------------------------------------------------------------
HarnessSendKill ==
  /\ Running("main")
  /\ main_pc = "harness"
  /\ logic_kills < MaxLogicKills
  /\ logic_kills' = logic_kills + 1
  /\ queue' = send_msg(queue, receiver, "logic", Kill).queue
  /\ UNCHANGED << tableVars, harnessVars, last_entry, uid, systems, receiver, thread, rt_pc, main_pc, entity_state,
                  visited, resources, meshes, quit, sigints, lifecycle, exit_sent,
                  kill_seen, after_kill >>

HarnessDropRuntimeQueue ==
  /\ Running("main")
  /\ main_pc = "harness"
  /\ receiver["runtime"]
  /\ receiver' = [receiver EXCEPT !["runtime"] = FALSE]
  /\ UNCHANGED << tableVars, harnessVars, last_entry, uid, systems, queue, thread, rt_pc, main_pc, entity_state,
                  visited, resources, meshes, quit, sigints, logic_kills, lifecycle,
                  exit_sent, kill_seen, after_kill >>

\* one turn of the loop of LogicSystem::startup
LogicRecv ==
  /\ Running("logic")
  /\ queue["logic"] # << >>
  /\ LET r == recv(queue, "logic")
         msg == Unwrap(r.ret)
         h == LogicSystem_startup_loop(msg)
         q == r.queue
         s == IF h.exit THEN send_msg(q, receiver, "runtime", SystemExit(uid["logic"]))
              ELSE [ ok |-> TRUE, queue |-> q ]
     IN /\ Note("logic", msg, h)
        /\ queue' = s.queue
        /\ thread' = [thread EXCEPT !["logic"] =
                        IF ~s.ok THEN "panicked" ELSE IF h.brk THEN "returned" ELSE @]
        /\ receiver' = [receiver EXCEPT !["logic"] = s.ok /\ ~h.brk]
  /\ UNCHANGED << tableVars, harnessVars, last_entry, uid, systems, rt_pc, main_pc, entity_state, visited, resources,
                  meshes, quit, sigints, logic_kills, lifecycle >>

\* either process: the program of main.rs, or a logic system and its creator
InitSystems ==
  /\ TableInit
  /\ HarnessIdle
  /\ \/ \E u \in UIDAssignments : ProgInit(u, ProgramThreads)
     \/ ProgInit(DistinctUIDs, {"main", "logic"})

NextSystems ==
  \/ NextProgram
  \/ HarnessSendKill
  \/ HarnessDropRuntimeQueue
  \/ LogicRecv

SpecSystems == InitSystems /\ [][NextSystems]_vars

\* ------------------------------------------------------------------------
\* Resource table properties
\* ------------------------------------------------------------------------

\* C1: a wrap under a name that an earlier wrap (or reserve) already bound
\* returns the handle the first call returned, mints nothing, and leaves the
\* wrapped value readable through get on that handle.
C1_RewrapSameHandle ==
  [][ (last'.op = "wrap" /\ last'.name \in DOMAIN first_handle)
        => /\ last'.ret = first_handle[last'.name]
           /\ table'.next_handle = table.next_handle
           /\ minted' = minted
           /\ get(table', last'.ret).ret = Some(last'.value) ]_vars

\* a second wrap of a name has replaced a different first value
C1_Witness ==
  /\ last.op = "wrap"
  /\ last.replaced
  /\ get(table, last.ret).ret = Some(last.value)

\* C2: the handles handed out start at 0 and strictly increase in allocation
\* order, so none is handed out twice, also after a remove.
C2_HandleIdsIncrease ==
  /\ (Len(minted) > 0 => minted[1] = 0)
  /\ \A i, j \in 1 .. Len(minted) : i < j => minted[i] < minted[j]

\* a handle was minted after the value of an earlier handle had been removed
C2_Witness ==
  /\ Len(minted) >= 2
  /\ last.op \in {"wrap", "reserve"}
  /\ last.ret = minted[Len(minted)]
  /\ IsSome(removed)
  /\ Unwrap(removed) < last.ret
  /\ Unwrap(removed) \notin DOMAIN table.resources

\* C3: the name index is injective.
C3_NamesInjective ==
  \A n1, n2 \in DOMAIN table.translations :
    n1 # n2 => table.translations[n1] # table.translations[n2]

\* two names hold equal values under different handles, after a remove
C3_Witness ==
  /\ IsSome(removed)
  /\ \E n1, n2 \in DOMAIN table.translations :
       /\ n1 # n2
       /\ IsSome(get(table, table.translations[n1]).ret)
       /\ get(table, table.translations[n1]).ret = get(table, table.translations[n2]).ret

\* C4: ask(name) is None until a wrap or reserve of the name has returned, and
\* from then on is Some of the handle that first call returned.
C4_AskStable ==
  last.op = "ask" => last.ret = MapGet(first_handle, last.name)

\* ask resolves a name whose value has been removed in the meantime
C4_Witness ==
  /\ last.op = "ask"
  /\ IsSome(last.ret)
  /\ last.ret = removed
  /\ get(table, Unwrap(last.ret)).ret = None
  /\ Cardinality(DOMAIN table.translations) >= 2

\* C5: reserve returns the bound handle of a bound name and changes nothing;
\* for an unbound name it hands out the next handle, binds the name to it and
\* stores no value; a wrap under a name whose handle holds no value returns
\* that handle and stores the value under it.
C5_Reserve ==
  [][ /\ (last'.op = "reserve" /\ last'.name \in DOMAIN first_handle)
         => (last'.ret = first_handle[last'.name] /\ table' = table)
      /\ (last'.op = "reserve" /\ last'.name \notin DOMAIN first_handle)
         => /\ \A i \in 1 .. Len(minted) : minted[i] # last'.ret
            /\ ask(table', last'.name).ret = Some(last'.ret)
            /\ get(table', last'.ret).ret = None
            /\ table'.resources = table.resources
      /\ (last'.op = "wrap" /\ last'.name \in DOMAIN first_handle
            /\ get(table, first_handle[last'.name]).ret = None)
         => /\ last'.ret = first_handle[last'.name]
            /\ get(table', last'.ret).ret = Some(last'.value) ]_vars

\* a name was reserved, never wrapped, and its handle reads as None
C5_Witness ==
  /\ last.op = "reserve"
  /\ removed = None
  /\ last.ret > 0
  /\ get(table, last.ret).ret = None
  /\ ask(table, last.name).ret = Some(last.ret)

\* C6: remove returns what was stored under the handle, leaves the handle
\* without a value, and leaves every other stored value, the name index, the
\* path index and the counter as they were.
C6_RemoveFrame ==
  [][ last'.op = "remove"
        => /\ last'.ret = get(table, last'.handle).ret
           /\ get(table', last'.handle).ret = None
           /\ \A h \in HandleIds \ {last'.handle} : get(table', h).ret = get(table, h).ret
           /\ table'.translations = table.translations
           /\ table'.path_deps_mappings = table.path_deps_mappings
           /\ table'.next_handle = table.next_handle ]_vars

\* a value was removed while a name and a path still point at its handle
C6_Witness ==
  /\ last.op = "remove"
  /\ IsSome(last.ret)
  /\ \E n \in DOMAIN table.translations : table.translations[n] = last.handle
  /\ \E p \in DOMAIN table.path_deps_mappings : table.path_deps_mappings[p] = last.handle

\* C7: every path maps, in the path index, to the handle returned by the
\* latest wrap that declared it.
C7_NewestOwnerWins ==
  table.path_deps_mappings = path_owner

\* a wrap took a path over from a different handle
C7_Witness ==
  /\ last.op = "wrap"
  /\ \E p \in last.taken_over : table.path_deps_mappings[p] = last.ret

\* C8: ask and get leave the table as it was.
C8_LookupsPure ==
  [][ last'.op \in {"ask", "get"} => table' = table ]_vars

\* a successful lookup on a table with values, names and paths
C8_Witness ==
  /\ last.op \in {"ask", "get"}
  /\ IsSome(last.ret)
  /\ DOMAIN table.resources # {}
  /\ DOMAIN table.path_deps_mappings # {}

\* ------------------------------------------------------------------------
\* System properties
\* ------------------------------------------------------------------------
Killable == {"entity", "graphics", "logic"}

\* C9: a system that has received a Kill has made exactly one SystemExit send,
\* carrying its own SystemUID, and has received no message after that Kill.
C9_KillExitsOnce ==
  \A s \in Killable :
    kill_seen[s] => (exit_sent[s] = << uid[s] >> /\ after_kill[s] = 0)

\* the entity and the graphics system were killed, the graphics system with
\* messages still queued behind the Kill, and no send failed
C9_Witness ==
  /\ kill_seen["entity"]
  /\ kill_seen["graphics"]
  /\ queue["graphics"] # << >>
  /\ \A t \in Threads : thread[t] # "panicked"

\* C10: the entity system starts in Traversing and its lifecycle is a prefix
\* of Traversing, Listening, Terminating.
C10_Lifecycle ==
  /\ entity_state = lifecycle[Len(lifecycle)]
  /\ lifecycle \in { << "Traversing" >>,
                     << "Traversing", "Listening" >>,
                     << "Traversing", "Listening", "Terminating" >> }

\* the entity system has terminated with a Kill left in its mailbox
C10_Witness ==
  /\ lifecycle = << "Traversing", "Listening", "Terminating" >>
  /\ thread["entity"] = "returned"
  /\ queue["entity"] # << >>

\* the LoadedEvents in a mailbox
CountEvents(q) == Cardinality({ i \in 1 .. Len(q) : q[i].type = "EntityEvent" })

\* C11: the entity system takes a message from its mailbox only once the walk
\* is over, and the first message it takes makes it send its exit and
\* terminate; a visit of the walk happens only before the exit is sent and
\* leaves the mailbox alone; once the exit is sent no LoadedEvent is published.
C11_WalkNotInterrupted ==
  [][ /\ Len(queue'["entity"]) < Len(queue["entity"])
         => /\ entity_state = "Listening"
            /\ entity_state' = "Terminating"
            /\ exit_sent'["entity"] = << uid["entity"] >>
      /\ visited' # visited
         => /\ exit_sent["entity"] = << >>
            /\ exit_sent'["entity"] = << >>
            /\ queue'["entity"] = queue["entity"]
      /\ exit_sent["entity"] # << >>
         => CountEvents(queue'["graphics"]) <= CountEvents(queue["graphics"]) ]_vars

\* the runtime sent Kill to the entity system and then to the graphics
\* system, the walk published a mesh after that, and the entity system has
\* since sent its exit and returned
C11_Witness ==
  /\ \E i, j \in 1 .. Len(queue["graphics"]) :
       /\ i < j
       /\ queue["graphics"][i] = Kill
       /\ queue["graphics"][j].type = "EntityEvent"
  /\ exit_sent["entity"] = << uid["entity"] >>
  /\ thread["entity"] = "returned"

\* the systems Runtime::startup creates
Created == {"runtime", "entity", "graphics"}

\* C12: when the runtime has signalled quit, its tracked set is empty and
\* every system it created has sent its exit notification.
C12_QuitWhenAllExited ==
  quit > 0 => /\ systems = {}
              /\ \A s \in Created : exit_sent[s] # << >>

\* every thread that can take a step eventually takes one
ProgramFairness ==
  /\ WF_vars(EntityVisit \/ EntityWalkDone \/ EntityRecv)
  /\ WF_vars(RuntimeRecv \/ RuntimeKillGraphics \/ RuntimeKillSelf)
  /\ WF_vars(GraphicsTryRecv \/ GraphicsEvents \/ MainWaitQuit)

SpecProgramFair == InitProgram /\ [][NextProgram]_vars /\ ProgramFairness

\* C13: once the runtime has received a Kill, it eventually signals quit.
C13_KillShutsDown ==
  kill_seen["runtime"] ~> (quit > 0)

\* ------------------------------------------------------------------------
\* A publisher and its subscribers (impl Publisher<EntityEvent> for
\* EntitySystem, src/src/entity.rs): addresses are subscribed, events are
\* published, and the systems behind the addresses may terminate. The event
\* published e-th is the number e.
\* ------------------------------------------------------------------------
\* subscriptions made to the publisher
MaxSubscribers == 3
\* events the publisher publishes
MaxEvents == 2

SubscriberBoxes == {"s1", "s2", "s3"}

InitPubSub ==
  /\ TableInit
  /\ ProgInit(DistinctUIDs, {})
  /\ UnitsIdle
  /\ disp = [ op |-> "idle" ]
  /\ pubsub = [ op |-> "new",
                subscribers |-> << >>,
                queue |-> [m \in SubscriberBoxes |-> << >>],
                receiver |-> [m \in SubscriberBoxes |-> TRUE],
                publisher |-> "running",
                \* history: the subscriptions in the order they were made
                registered |-> << >>,
                \* history: per publish call, the subscriptions made before it, the
                \* mailboxes alive at the call, the sends made, and whether it returned
                calls |-> << >> ]

PubSubSubscribe(m) ==
  /\ pubsub.publisher = "running"
  /\ Len(pubsub.registered) < MaxSubscribers
  /\ pubsub' = [pubsub EXCEPT !.op = "subscribe",
                              !.subscribers = subscribe(@, m),
                              !.registered = Append(@, m)]
  /\ UNCHANGED << tableVars, progVars, disp, chan, gfx >>

PubSubPublish ==
  /\ pubsub.publisher = "running"
  /\ Len(pubsub.calls) < MaxEvents
  /\ LET e == Len(pubsub.calls) + 1
         r == publish(pubsub.queue, pubsub.receiver, pubsub.subscribers, e)
     IN pubsub' = [pubsub EXCEPT
            !.op = "publish",
            !.queue = r.queue,
            !.publisher = IF r.ok THEN "running" ELSE "panicked",
            !.calls = Append(@, [ registered |-> pubsub.registered,
                                  alive |-> { m \in SubscriberBoxes : pubsub.receiver[m] },
                                  sent |-> r.sent,
                                  ok |-> r.ok ])]
  /\ UNCHANGED << tableVars, progVars, disp, chan, gfx >>

\* the system behind a mailbox terminates: its MsgQueue is dropped
PubSubDrop(m) ==
  /\ pubsub.receiver[m]
  /\ pubsub' = [pubsub EXCEPT !.op = "drop", !.receiver[m] = FALSE]
  /\ UNCHANGED << tableVars, progVars, disp, chan, gfx >>

NextPubSub ==
  \/ \E m \in SubscriberBoxes : PubSubSubscribe(m)
  \/ PubSubPublish
  \/ \E m \in SubscriberBoxes : PubSubDrop(m)

SpecPubSub == InitPubSub /\ [][NextPubSub]_vars

\* the number of times x occurs in the sequence q
Occurrences(q, x) == Cardinality({ i \in 1 .. Len(q) : q[i] = x })

C15_PublishBestEffort ==
  /\ pubsub.publisher = "running"
  /\ \A e \in 1 .. Len(pubsub.calls) :
       LET c == pubsub.calls[e] IN
       \A m \in c.alive :
         Occurrences(c.registered, m) > 0 => Occurrences(pubsub.queue[m], e) > 0

\* the LoadedEvents of the (handle, entity) pairs in wrapped, in order
RECURSIVE EventsOf(_)
EventsOf(wrapped) ==
  IF wrapped = << >> THEN << >>
  ELSE << Loaded(Head(wrapped).handle, Head(wrapped).entity) >> \o EventsOf(Tail(wrapped))

\* C16: a visit of the walk that decodes a file publishes, to the subscriber,
\* exactly the LoadedEvents of the values it wrapped, each carrying the handle
\* wrap returned, and get on that handle gives the value.
C16_OneEventPerWrap ==
  [][ (visited' # visited /\ last_entry'.outcome = "decoded")
        => /\ queue'["graphics"] = queue["graphics"] \o EventsOf(last_entry'.wrapped)
           /\ \A i \in 1 .. Len(last_entry'.wrapped) :
                get(resources', last_entry'.wrapped[i].handle).ret
                  = Some(last_entry'.wrapped[i].entity) ]_vars

\* ------------------------------------------------------------------------
\* Decoders and their composition (src/src/entity/decoder.rs). A decoder is
\* its EXT, its SUB_EXT and what its load_from_file returns for the file at
\* hand; a tuple of decoders is the sequence of its members.
\* ------------------------------------------------------------------------
\* members of a tuple of decoders
MaxDecoders == 3

Decoders == [ ext : {"json", "obj"}, sub_ext : {"", "param", "shd"}, result : {"Ok", "Err"} ]
DecoderTuples ==
  UNION { [1 .. n -> { d \in Decoders : << d.ext, d.sub_ext >> \in { << "json", "param" >>, << "json", "shd" >>, << "obj", "" >> } }] :
            n \in 1 .. MaxDecoders }

HasDecoder_load_from_file_returns_result(d, ext, sub_ext) ==
  LET was_active == ext = d.ext /\ sub_ext = d.sub_ext IN
  [ ret |-> was_active /\ d.result = "Ok",
    invoked |-> was_active,
    logged |-> was_active /\ d.result = "Err" ]

\* impl HasDecoder for D: the decoder is run when it claims the pair, its
\* error is logged, and was_active is returned
HasDecoder_load_from_file(d, ext, sub_ext) ==
  LET was_active == ext = d.ext /\ sub_ext = d.sub_ext IN
  [ ret |-> was_active,
    invoked |-> was_active,
    logged |-> was_active /\ d.result = "Err" ]

RECURSIVE tuple_load_from_file_tries_all(_, _, _, _)
tuple_load_from_file_tries_all(decoders, i, ext, sub_ext) ==
  IF i > Len(decoders) THEN [ ret |-> FALSE, invoked |-> << >>, logged |-> << >> ]
  ELSE LET r == HasDecoder_load_from_file(decoders[i], ext, sub_ext)
           rest == tuple_load_from_file_tries_all(decoders, i + 1, ext, sub_ext)
       IN [ ret |-> r.ret \/ rest.ret,
            invoked |-> (IF r.invoked THEN << i >> ELSE << >>) \o rest.invoked,
            logged |-> (IF r.logged THEN << i >> ELSE << >>) \o rest.logged ]

\* impl HasDecoder for a tuple: A::load_from_file(..) || B::load_from_file(..)
\* || .. || false, from member i on; invoked and logged list the members
\* that were run and that failed
RECURSIVE tuple_load_from_file(_, _, _, _)
tuple_load_from_file(decoders, i, ext, sub_ext) ==
  IF i > Len(decoders) THEN [ ret |-> FALSE, invoked |-> << >>, logged |-> << >> ]
  ELSE LET r == HasDecoder_load_from_file(decoders[i], ext, sub_ext) IN
       IF r.ret
       THEN [ ret |-> TRUE,
              invoked |-> IF r.invoked THEN << i >> ELSE << >>,
              logged |-> IF r.logged THEN << i >> ELSE << >> ]
       ELSE tuple_load_from_file(decoders, i + 1, ext, sub_ext)

InitDispatch ==
  /\ TableInit
  /\ ProgInit(DistinctUIDs, {})
  /\ UnitsIdle
  /\ pubsub = [ op |-> "idle" ]
  /\ \E ds \in DecoderTuples, ext \in {"json", "obj", "txt"}, sub_ext \in {"", "param", "shd", "unknown"} :
       disp = [ op |-> "input", decoders |-> ds, ext |-> ext, sub_ext |-> sub_ext ]

Dispatch ==
  /\ disp.op = "input"
  /\ LET r == tuple_load_from_file(disp.decoders, 1, disp.ext, disp.sub_ext) IN
     disp' = [ op |-> "dispatched", decoders |-> disp.decoders, ext |-> disp.ext,
               sub_ext |-> disp.sub_ext, ret |-> r.ret, invoked |-> r.invoked,
               logged |-> r.logged ]
  /\ UNCHANGED << tableVars, progVars, pubsub, chan, gfx >>

NextDispatch == Dispatch

SpecDispatch == InitDispatch /\ [][NextDispatch]_vars

\* the members of a tuple that claim the pair
Claiming(decoders, ext, sub_ext) ==
  { i \in 1 .. Len(decoders) : decoders[i].ext = ext /\ decoders[i].sub_ext = sub_ext }

D1 == [ ext |-> "json", sub_ext |-> "param", result |-> "Ok" ]
D2 == [ ext |-> "json", sub_ext |-> "shd", result |-> "Ok" ]

\* C17: the composed dispatch runs the first member that claims the pair and
\* no other, and returns true; when no member claims it, it runs none and
\* returns false. With D1 = (json, param) and D2 = (json, shd), x.param.json
\* runs D1 only and x.unknown.json runs neither.
C17_FirstMatchWins ==
  /\ disp.op = "dispatched"
       => LET claiming == Claiming(disp.decoders, disp.ext, disp.sub_ext) IN
          IF claiming = {}
          THEN disp.ret = FALSE /\ disp.invoked = << >>
          ELSE /\ disp.ret = TRUE
               /\ disp.invoked = << CHOOSE i \in claiming : \A j \in claiming : i <= j >>
  /\ tuple_load_from_file(<< D1, D2 >>, 1, "json", "param")
       = [ ret |-> TRUE, invoked |-> << 1 >>, logged |-> << >> ]
  /\ tuple_load_from_file(<< D1, D2 >>, 1, "json", "unknown")
       = [ ret |-> FALSE, invoked |-> << >>, logged |-> << >> ]

\* two members claim the pair and the first of them, which fails, was the
\* only one run
C17_Witness ==
  /\ disp.op = "dispatched"
  /\ Cardinality(Claiming(disp.decoders, disp.ext, disp.sub_ext)) >= 2
  /\ disp.decoders[1].ext # disp.ext
  /\ disp.invoked = << 2 >>
  /\ disp.logged = << 2 >>
  /\ disp.ret

\* ------------------------------------------------------------------------
\* The keys of a file name (src/src/entity.rs)
\* ------------------------------------------------------------------------
\* dot-separated components of a file name
MaxComponents == 3


\* every name but the empty name, "." and ".."
FileNames ==
  UNION { [1 .. n -> {"", "a", "obj", "json", "param", "tar", "gz"}] : n \in 1 .. MaxComponents }
    \ { << "" >>, << "", "" >>, << "", "", "" >> }

InitKeys ==
  /\ TableInit
  /\ ProgInit(DistinctUIDs, {})
  /\ UnitsIdle
  /\ pubsub = [ op |-> "idle" ]
  /\ \E name \in FileNames : disp = [ op |-> "name", name |-> name ]

\* traverse_directory takes the extension of the file
KeysExtension ==
  /\ disp.op = "name"
  /\ disp' = [ op |-> "extension", name |-> disp.name, ext |-> Path_extension(disp.name) ]
  /\ UNCHANGED << tableVars, progVars, pubsub, chan, gfx >>

\* dispatch_json takes its sub-extension
KeysSubExtension ==
  /\ disp.op = "extension"
  /\ disp' = [ op |-> "keys", name |-> disp.name, ext |-> disp.ext,
               sub_ext |-> extract_sub_extension(disp.name) ]
  /\ UNCHANGED << tableVars, progVars, pubsub, chan, gfx >>

NextKeys == KeysExtension \/ KeysSubExtension

SpecKeys == InitKeys /\ [][NextKeys]_vars

\* an Option<&str> read as a string, None being the empty string
OrEmpty(o) == IF IsSome(o) THEN Unwrap(o) ELSE ""

\* the sub-extension of a name with a dot: the last component of what
\* precedes the final dot, if that has two components or more
SubExtensionOf(name) ==
  IF Len(name) >= 3 THEN name[Len(name) - 1] ELSE ""

\* the name begins with its only dot
Hidden(name) == Len(name) = 2 /\ name[1] = ""

\* C19 as stated: for every file name with a dot, the extension is what
\* follows the final dot and the sub-extension (None read as the empty
\* string) is the last component of the stem when the stem has two or more.
C19_DeriveKeys ==
  (disp.op = "keys" /\ Len(disp.name) >= 2)
    => /\ disp.ext = Some(disp.name[Len(disp.name)])
       /\ OrEmpty(disp.sub_ext) = SubExtensionOf(disp.name)

\* C19 amended: the same, for every file name with a dot that does not
\* begin with its only dot; a.obj, a.param.json and archive.tar.gz give
\* (obj, ""), (json, param) and (gz, tar).
C19_DeriveKeysUnlessHidden ==
  /\ (disp.op = "keys" /\ Len(disp.name) >= 2 /\ ~Hidden(disp.name))
       => /\ disp.ext = Some(disp.name[Len(disp.name)])
          /\ OrEmpty(disp.sub_ext) = SubExtensionOf(disp.name)
  /\ Path_extension(<< "a", "obj" >>) = Some("obj")
  /\ OrEmpty(extract_sub_extension(<< "a", "obj" >>)) = ""
  /\ Path_extension(<< "a", "param", "json" >>) = Some("json")
  /\ OrEmpty(extract_sub_extension(<< "a", "param", "json" >>)) = "param"
  /\ Path_extension(<< "archive", "tar", "gz" >>) = Some("gz")
  /\ OrEmpty(extract_sub_extension(<< "archive", "tar", "gz" >>)) = "tar"

\* the keys of a.param.json were derived
C19_Witness ==
  /\ disp.op = "keys"
  /\ disp.name = << "a", "param", "json" >>
  /\ disp.ext = Some("json")
  /\ disp.sub_ext = Some("param")

\* what a walk step leaves alone when the file it meets changes nothing
VisitChangesNothing ==
  /\ resources' = resources
  /\ queue' = queue
  /\ thread' = thread
  /\ receiver' = receiver
  /\ entity_state' = entity_state

\* no loader of the entity system claims the keys of the name: its extension
\* is neither obj nor json, or it is json with a sub-extension other than
\* param, or with none
Unclaimed(name) ==
  LET ext == Path_extension(name) IN
  /\ ext # Some("obj")
  /\ ~(ext = Some("json") /\ extract_sub_extension(name) = Some("param"))

\* C18: a walk step that meets a file whose keys no loader claims leaves the
\* resource table and every mailbox as they were and the entity system
\* walking.
C18_UnclaimedNoAction ==
  [][ visited' # visited => \A file \in Files(visited + 1) :
        (Unclaimed(file.name) /\ EntityVisitFile(file))
          => /\ VisitChangesNothing
             /\ Running("entity")'
             /\ EntitySystem_start_walking(entity_state') ]_vars

\* the walk has decoded a file and then met a file no loader claims, and
\* goes on
C18_Witness ==
  /\ last_entry.outcome = "unclaimed"
  /\ resources.next_handle > 0
  /\ Running("entity")
  /\ entity_state = "Traversing"

\* the decoder the file is dispatched to returns an error
DecoderFails(file) ==
  LET loader == traverse_directory_file(file.name) IN
  \/ loader = "load_obj" /\ Mesh_load_from_path(file) = "Err"
  \/ loader = "load_parameters" /\ Parameter_load_from_file(file) = "Err"

\* C20: a walk step that meets a file whose decoder fails leaves the resource
\* table and every mailbox as they were and the entity system walking. What
\* the dispatch of a file does depends on the table and the mailboxes only
\* (traverse_file), so the files met next are dispatched as if the failing
\* file had not been there.
C20_DecoderErrorSkipped ==
  [][ visited' # visited => \A file \in Files(visited + 1) :
        (DecoderFails(file) /\ EntityVisitFile(file))
          => /\ VisitChangesNothing
             /\ Running("entity")'
             /\ EntitySystem_start_walking(entity_state') ]_vars

\* the walk has decoded a file and then met a file whose decoder failed, and
\* goes on
C20_Witness ==
  /\ last_entry.outcome = "error"
  /\ resources.next_handle > 0
  /\ Running("entity")
  /\ entity_state = "Traversing"

\* ------------------------------------------------------------------------
\* Errors of the walk and of sends
\* ------------------------------------------------------------------------

\* C21: a walk step that meets a directory or an entry that cannot be read
\* leaves the entity system running and walking, so that the entries after it
\* are still visited and start still reaches its loop.
C21_UnreadableSkipped ==
  [][ (visited' = visited + 1 /\ EntityVisitUnreadable)
        => /\ Running("entity")'
           /\ EntitySystem_start_walking(entity_state') ]_vars

\* C22: once the root directory could not be opened, the program ends.
C22_RootFailureEndsProgram ==
  (last_entry.outcome = "no_root") ~> ~ProcessAlive

\* the messages a send is tried with in every state
SentMessages == { Kill, SystemExit(1) }

\* C23: in every state, a send to any mailbox is Ok exactly when the MsgQueue
\* of that mailbox has not been dropped; an Ok send puts the message at the
\* end of that mailbox and leaves the other mailboxes as they were; a failed
\* send leaves every mailbox as it was.
C23_SendMsg ==
  \A to \in Mailboxes, msg \in SentMessages :
    LET s == send_msg(queue, receiver, to, msg) IN
    /\ s.ok <=> receiver[to]
    /\ \A m \in Mailboxes \ {to} : s.queue[m] = queue[m]
    /\ s.ok => /\ Len(s.queue[to]) = Len(queue[to]) + 1
               /\ s.queue[to][Len(s.queue[to])] = msg
               /\ SubSeq(s.queue[to], 1, Len(queue[to])) = queue[to]
    /\ ~s.ok => s.queue[to] = queue[to]

\* a Kill was sent to the logic system and received, and the exit
\* notification of the logic system then failed on the dropped runtime
\* MsgQueue, whose mailbox is as it was
C23_Witness ==
  /\ kill_seen["logic"]
  /\ ~receiver["runtime"]
  /\ thread["logic"] = "panicked"
  /\ queue["runtime"] = << >>

\* C24: the runtime never panics, and a system that has tried to send its
\* exit notification has not panicked: the entity thread has returned, the
\* main thread (the graphics system) goes on to wait for quit or has returned.
C24_SendFailureNonFatal ==
  /\ thread["runtime"] # "panicked"
  /\ exit_sent["entity"] # << >> => thread["entity"] = "returned"
  /\ exit_sent["graphics"] # << >> => thread["main"] # "panicked"

\* all SystemExit sends made so far, by any system
AllExits == exit_sent["runtime"] \o exit_sent["entity"] \o exit_sent["graphics"]

\* C26: no SystemUID the runtime tracked has been carried by two SystemExit
\* sends.
C26_ExitAtMostOnce ==
  \A u \in {uid[s] : s \in Created} : Occurrences(AllExits, u) <= 1

\* ------------------------------------------------------------------------
\* One mailbox (src/src/system.rs): senders hold clones of its Addr, one
\* receiver holds its MsgQueue. The i-th message of sender s is << s, i >>.
\* ------------------------------------------------------------------------
\* messages per sender
MaxMessages == 2

Senders == {"s1", "s2"}
Box == {"box"}

InitChannel ==
  /\ TableInit
  /\ ProgInit(DistinctUIDs, {})
  /\ pubsub = [ op |-> "idle" ]
  /\ disp = [ op |-> "idle" ]
  /\ gfx = [ op |-> "idle" ]
  /\ chan = [ op |-> "new",
              queue |-> [m \in Box |-> << >>],
              receiver |-> [m \in Box |-> TRUE],
              \* history: per sender, the sends it made and those that were Ok
              tried |-> [s \in Senders |-> 0],
              sent |-> [s \in Senders |-> << >>],
              \* history: the messages recv returned, in order
              received |-> << >> ]

ChannelSend(s) ==
  /\ chan.op # "idle"
  /\ chan.tried[s] < MaxMessages
  /\ LET msg == << s, chan.tried[s] + 1 >>
         r == send_msg(chan.queue, chan.receiver, "box", msg)
     IN chan' = [chan EXCEPT !.op = "send",
                             !.queue = r.queue,
                             !.tried[s] = @ + 1,
                             !.sent[s] = IF r.ok THEN Append(@, msg) ELSE @]
  /\ UNCHANGED << tableVars, progVars, pubsub, disp, gfx >>

ChannelRecv ==
  /\ chan.op # "idle"
  /\ chan.receiver["box"]
  /\ chan.queue["box"] # << >>
  /\ LET r == recv(chan.queue, "box") IN
     chan' = [chan EXCEPT !.op = "recv",
                          !.queue = r.queue,
                          !.received = Append(@, Unwrap(r.ret))]
  /\ UNCHANGED << tableVars, progVars, pubsub, disp, gfx >>

\* the receiver terminates: its MsgQueue is dropped, with what it holds
ChannelDrop ==
  /\ chan.op # "idle"
  /\ chan.receiver["box"]
  /\ chan' = [chan EXCEPT !.op = "drop", !.receiver["box"] = FALSE]
  /\ UNCHANGED << tableVars, progVars, pubsub, disp, gfx >>

NextChannel ==
  \/ \E s \in Senders : ChannelSend(s)
  \/ ChannelRecv
  \/ ChannelDrop

SpecChannel == InitChannel /\ [][NextChannel]_vars

\* the messages of sender s in q, in order
FromSender(q, s) == SelectSeq(q, LAMBDA m : m[1] = s)

\* C25: the messages received from a sender are the first messages that
\* sender sent, in the order it sent them, and no message is received twice.
C25_FIFO ==
  chan.op # "idle" =>
    /\ \A s \in Senders :
         LET got == FromSender(chan.received, s) IN
         /\ Len(got) <= Len(chan.sent[s])
         /\ got = SubSeq(chan.sent[s], 1, Len(got))
    /\ \A i, j \in 1 .. Len(chan.received) :
         i # j => chan.received[i] # chan.received[j]

\* both messages of s1 were received, with a message of s2 between them,
\* while the second message of s2 waits in the mailbox
C25_Witness ==
  /\ chan.op = "recv"
  /\ chan.received = << << "s1", 1 >>, << "s2", 1 >>, << "s1", 2 >> >>
  /\ chan.queue["box"] = << << "s2", 2 >> >>

\* ------------------------------------------------------------------------
\* The handle-to-mesh map of a graphics system (src/src/graphics.rs), driven
\* through accept_entity with drawn events. A GPU mesh is written as the path
\* of the mesh it was built from.
\* ------------------------------------------------------------------------

InitGraphics ==
  /\ TableInit
  /\ ProgInit(DistinctUIDs, {})
  /\ pubsub = [ op |-> "idle" ]
  /\ disp = [ op |-> "idle" ]
  /\ chan = [ op |-> "idle" ]
  /\ gfx = [ op |-> "new", meshes |-> EmptyMap ]

\* a Loaded event is taken from the mailbox: accept_entity runs on it, and the
\* tessellation of a mesh builds or fails
GraphicsAccept ==
  /\ gfx.op # "idle"
  /\ \E handle \in HandleIds, entity \in { Mesh("p1"), Mesh("p2"), [kind |-> "Parameter", of |-> "p1", param |-> "a"] }, tess_ok \in BOOLEAN :
       gfx' = [ op |-> "accept",
                meshes |-> accept_entity(gfx.meshes, handle, entity, tess_ok),
                \* history: the map before the call and the arguments
                before |-> gfx.meshes,
                handle |-> handle,
                entity |-> entity,
                tess_ok |-> tess_ok ]
  /\ UNCHANGED << tableVars, progVars, pubsub, disp, chan >>

NextGraphics == GraphicsAccept

SpecGraphics == InitGraphics /\ [][NextGraphics]_vars

\* the map m is the map before with the mesh of entity under handle and
\* every other handle as it was
StoredUnder(m, before, handle, entity) ==
  /\ DOMAIN m = DOMAIN before \cup {handle}
  /\ m[handle] = entity.of
  /\ \A h \in DOMAIN before \ {handle} : m[h] = before[h]

\* C27 as stated: after a Loaded event carrying a mesh the map holds that mesh
\* under the delivered handle and is otherwise as before; after a Loaded
\* event of another kind the map is as before.
C27_MeshStored ==
  gfx.op = "accept" =>
    IF gfx.entity.kind = "Mesh"
    THEN StoredUnder(gfx.meshes, gfx.before, gfx.handle, gfx.entity)
    ELSE gfx.meshes = gfx.before

\* C27 amended: the same when the GPU tessellation of the mesh builds; when it
\* fails to build, the map is as before.
C27_MeshStoredIfBuilt ==
  gfx.op = "accept" =>
    IF gfx.entity.kind = "Mesh" /\ gfx.tess_ok
    THEN /\ StoredUnder(gfx.meshes, gfx.before, gfx.handle, gfx.entity)
         /\ gfx.handle \in DOMAIN gfx.before
              => Cardinality(DOMAIN gfx.meshes) = Cardinality(DOMAIN gfx.before)
    ELSE gfx.meshes = gfx.before

\* a mesh arrived for a handle that held another mesh, and replaced it
C27_Witness ==
  /\ gfx.op = "accept"
  /\ gfx.entity = Mesh("p2")
  /\ gfx.tess_ok
  /\ gfx.handle \in DOMAIN gfx.before
  /\ gfx.before[gfx.handle] = "p1"
  /\ gfx.meshes[gfx.handle] = "p2"

\* ------------------------------------------------------------------------
\* The uniform extractor (src/src/graphics/shader.rs). A single declaration
\* is its type qualifier (None, or Some of the sequence of its qualifiers),
\* its type, whether the type carries an array specifier, its name (None or
\* Some), whether the name carries an array specifier and whether it has an
\* initializer.
\* ------------------------------------------------------------------------
\* single declarations visited by one extractor
MaxDeclarations == 3

Declaration(quals, ty, ty_array, name, array, init) ==
  [ qualifier |-> quals, ty |-> ty, ty_array |-> ty_array, name |-> name,
    array |-> array, init |-> init ]

\* uniform ty name;
Uniform(ty, name) == Declaration(Some(<< "uniform" >>), ty, FALSE, Some(name), FALSE, FALSE)

\* the uniform declarations of two names with two types, and a declaration
\* for each way of not being one
Declarations ==
  { Uniform(ty, name) : ty \in {"float", "ivec2"}, name \in {"x", "y"} }
    \cup { Declaration(None, "float", FALSE, Some("x"), FALSE, FALSE),
           Declaration(Some(<< "in" >>), "float", FALSE, Some("x"), FALSE, FALSE),
           Declaration(Some(<< "layout", "uniform" >>), "float", FALSE, Some("x"), FALSE, FALSE),
           Declaration(Some(<< >>), "float", FALSE, Some("x"), FALSE, FALSE),
           Declaration(Some(<< "uniform" >>), "float", TRUE, Some("x"), FALSE, FALSE),
           Declaration(Some(<< "uniform" >>), "float", FALSE, None, FALSE, FALSE),
           Declaration(Some(<< "uniform" >>), "float", FALSE, Some("x"), TRUE, FALSE),
           Declaration(Some(<< "uniform" >>), "float", FALSE, Some("x"), FALSE, TRUE) }

ExtractUniforms_new == [ uniforms |-> EmptyMap, errors |-> << >> ]

visit_single_declaration_overwrites(self, sd) ==
  IF /\ IsSome(sd.qualifier)
     /\ Len(Unwrap(sd.qualifier)) = 1
     /\ Unwrap(sd.qualifier)[1] = "uniform"
     /\ ~sd.ty_array /\ IsSome(sd.name) /\ ~sd.array /\ ~sd.init
  THEN [self EXCEPT !.uniforms = MapInsert(@, Unwrap(sd.name), sd.ty)]
  ELSE self

\* impl Visitor for ExtractUniforms: visit_single_declaration
visit_single_declaration(self, sd) ==
  IF /\ IsSome(sd.qualifier)
     /\ ~sd.ty_array
     /\ IsSome(sd.name)
     /\ ~sd.array
     /\ ~sd.init
     /\ Len(Unwrap(sd.qualifier)) = 1
  THEN IF Unwrap(sd.qualifier)[1] = "uniform"
       THEN LET name == Unwrap(sd.name) IN
            IF name \in DOMAIN self.uniforms
            THEN [self EXCEPT !.errors = Append(@, << name, sd.ty >>)]
            ELSE [self EXCEPT !.uniforms = MapInsert(@, name, sd.ty)]
       ELSE self
  ELSE self

\* ast.visit(&mut extractor): the single declarations of a shader, in order
RECURSIVE visit(_, _)
visit(self, decls) ==
  IF decls = << >> THEN self
  ELSE visit(visit_single_declaration(self, Head(decls)), Tail(decls))

InitUniforms ==
  /\ TableInit
  /\ ProgInit(DistinctUIDs, {})
  /\ UnitsIdle
  /\ pubsub = [ op |-> "idle" ]
  /\ disp = [ op |-> "extractor", self |-> ExtractUniforms_new, visited |-> 0 ]

UniformsVisit ==
  /\ disp.op \in {"extractor", "visit"}
  /\ disp.visited < MaxDeclarations
  /\ \E sd \in Declarations :
       disp' = [ op |-> "visit",
                 self |-> visit_single_declaration(disp.self, sd),
                 visited |-> disp.visited + 1,
                 \* history: the extractor before the visit, and the declaration
                 before |-> disp.self,
                 sd |-> sd ]
  /\ UNCHANGED << tableVars, progVars, pubsub, chan, gfx >>

NextUniforms == UniformsVisit

SpecUniforms == InitUniforms /\ [][NextUniforms]_vars

\* the only qualifier of sd is uniform, and it has a name, no array specifier
\* and no initializer
PlainUniform(sd) ==
  /\ sd.qualifier = Some(<< "uniform" >>)
  /\ sd.name # None
  /\ ~(sd.ty_array \/ sd.array)
  /\ ~sd.init

\* C28: the visit of a plain uniform declaration whose name is not recorded
\* records name -> type and nothing else; the visit of one whose name is
\* recorded keeps the recorded types and appends (name, type) to the errors;
\* the visit of any other declaration changes nothing. The shader of the
\* test gives x -> float, y -> ivec2, z -> int.
C28_UniformExtractor ==
  /\ disp.op = "visit" =>
       LET sd == disp.sd
           old == disp.before
           new == disp.self
       IN IF PlainUniform(sd)
          THEN IF sd.name[1] \in DOMAIN old.uniforms
               THEN /\ new.uniforms = old.uniforms
                    /\ Len(new.errors) = Len(old.errors) + 1
                    /\ new.errors[Len(new.errors)] = << sd.name[1], sd.ty >>
                    /\ SubSeq(new.errors, 1, Len(old.errors)) = old.errors
               ELSE /\ DOMAIN new.uniforms = DOMAIN old.uniforms \cup {sd.name[1]}
                    /\ new.uniforms[sd.name[1]] = sd.ty
                    /\ \A n \in DOMAIN old.uniforms : new.uniforms[n] = old.uniforms[n]
                    /\ new.errors = old.errors
          ELSE new = old
  /\ LET e == visit(ExtractUniforms_new,
                    << Uniform("float", "x"), Uniform("ivec2", "y"), Uniform("int", "z") >>)
     IN /\ MapGet(e.uniforms, "x") = Some("float")
        /\ MapGet(e.uniforms, "y") = Some("ivec2")
        /\ MapGet(e.uniforms, "z") = Some("int")

\* x was declared a float, then declared again an ivec2: float is kept and
\* the second declaration is in the errors
C28_Witness ==
  /\ disp.op = "visit"
  /\ disp.sd = Uniform("ivec2", "x")
  /\ disp.self.uniforms = MapInsert(EmptyMap, "x", "float")
  /\ disp.self.errors = << << "x", "ivec2" >> >>

\* ------------------------------------------------------------------------
\* The entity system and a subscriber that is gone; the graphics message loop
\* ------------------------------------------------------------------------

\* C29: a walk step that decodes a file while the mailbox of the graphics
\* system is gone leaves the entity system running and walking.
C29_DeadSubscriberHarmless ==
  [][ (visited' = visited + 1 /\ ~receiver["graphics"] /\ last_entry'.wrapped # << >>)
        => /\ Running("entity")'
           /\ EntitySystem_start_walking(entity_state') ]_vars

\* C30: while the graphics system is in its message loop it can take a step,
\* whatever its mailbox holds; it leaves the message loop for the window
\* events only on an empty mailbox, which it leaves empty; and from the
\* window events it goes back to the message loop unless the window closes.
C30_GraphicsNeverBlocks ==
  [][ /\ (Running("main") /\ main_pc = "msgs") => ENABLED GraphicsTryRecv
      /\ (main_pc = "msgs" /\ main_pc' = "events")
           => (queue["graphics"] = << >> /\ queue' = queue)
      /\ (main_pc = "events" /\ main_pc' # "events")
           => main_pc' \in {"msgs", "wait_quit"} ]_vars

\* the graphics system found its mailbox empty before the entity system
\* had published anything, and has gone on to the window events
C30_Witness ==
  /\ Running("main")
  /\ main_pc = "events"
  /\ queue["graphics"] = << >>
  /\ visited = 0
  /\ lifecycle = << "Traversing" >>
  /\ ~kill_seen["graphics"]

\* ------------------------------------------------------------------------
\* Shutdown from the window
\* ------------------------------------------------------------------------

\* C31: once the graphics system has left on a window close, having sent its
\* SystemExit and then Kill to the runtime, the runtime eventually signals
\* quit.
C31_WindowCloseShutsDown ==
  (main_pc = "wait_quit" /\ ~kill_seen["graphics"]) ~> (quit > 0)

\* ------------------------------------------------------------------------
\* A claiming decoder that fails
\* ------------------------------------------------------------------------

\* C32: when a member of the tuple claims the pair and its decoder fails, and
\* no member before it claims the pair, the dispatch returns true, that
\* member is the only one run, and its error is the only one logged.
C32_FailedDecoderHandled ==
  disp.op = "dispatched" =>
    \A i \in 1 .. Len(disp.decoders) :
      ( /\ i \in Claiming(disp.decoders, disp.ext, disp.sub_ext)
        /\ disp.decoders[i].result = "Err"
        /\ \A j \in 1 .. (i - 1) : j \notin Claiming(disp.decoders, disp.ext, disp.sub_ext) )
        => /\ disp.ret = TRUE
           /\ disp.invoked = << i >>
           /\ disp.logged = << i >>

\* the first member claimed the pair and failed; the second, which claims the
\* pair too and would have decoded the file, was not run
C32_Witness ==
  /\ disp.op = "dispatched"
  /\ Len(disp.decoders) = 2
  /\ Claiming(disp.decoders, disp.ext, disp.sub_ext) = {1, 2}
  /\ disp.decoders[1].result = "Err"
  /\ disp.decoders[2].result = "Ok"
  /\ disp.ret
  /\ disp.invoked = << 1 >>

\* ------------------------------------------------------------------------
\* Resource table: removal, indices, frame of wrap
\* ------------------------------------------------------------------------

\* C33: a wrap under a name whose handle lost its value to the latest remove
\* returns that handle, get on it gives the wrapped value, and neither the
\* counter nor the name index changes; in every state a name is bound to the
\* handle its first wrap or reserve returned.
C33_WrapAfterRemove ==
  [][ /\ ( /\ last'.op = "wrap"
           /\ removed # None
           /\ ask(table, last'.name).ret = removed
           /\ get(table, Unwrap(removed)).ret = None )
         => /\ last'.ret = Unwrap(removed)
            /\ get(table', last'.ret).ret = Some(last'.value)
            /\ table'.next_handle = table.next_handle
            /\ table'.translations = table.translations
      /\ table'.translations = first_handle' ]_vars

\* a value was removed and a wrap under the name of its handle then stored
\* another value under that handle
C33_Witness ==
  /\ last.op = "wrap"
  /\ removed = Some(last.ret)
  /\ last.ret # 0
  /\ ~last.replaced
  /\ get(table, last.ret).ret = Some(last.value)
  /\ table.next_handle = last.ret + 1

\* the handles bound to a name, and those owning a path
Range(m) == { m[k] : k \in DOMAIN m }

\* C34: every handle that keys a value, is bound to a name or owns a path is
\* below the counter, and every handle that keys a value or owns a path is
\* bound to a name.
C34_HandlesWellFormed ==
  /\ \A h \in DOMAIN table.resources \cup Range(table.translations)
                \cup Range(table.path_deps_mappings) : h < table.next_handle
  /\ DOMAIN table.resources \cup Range(table.path_deps_mappings)
       \subseteq Range(table.translations)

\* every name is bound, one of the handles has no value, one owns every path,
\* and the counter is past them all
C34_Witness ==
  /\ DOMAIN table.translations = Names
  /\ table.next_handle = NumNames
  /\ \E h \in Range(table.translations) : h \notin DOMAIN table.resources
  /\ DOMAIN table.path_deps_mappings = Paths
  /\ \E h \in DOMAIN table.resources : Range(table.path_deps_mappings) = {h}

\* ------------------------------------------------------------------------
\* A ResourceManager driven through wrap, reserve and remove, each state
\* holding the table before the latest call, the arguments of the call and
\* the table after it.
\* ------------------------------------------------------------------------
InitCalls ==
  /\ TableInit
  /\ ProgInit(DistinctUIDs, {})
  /\ UnitsIdle
  /\ pubsub = [ op |-> "idle" ]
  /\ disp = [ op |-> "table", table |-> ResourceManager_new ]


CallWrap(resource, name, md) ==
  /\ disp.op \in {"table", "wrap", "reserve", "remove"}
  /\ LET r == wrap(disp.table, resource, name, md) IN
     disp' = [ op |-> "wrap", table |-> r.self, before |-> disp.table,
               value |-> resource, name |-> name, md |-> md, ret |-> r.ret ]
  /\ UNCHANGED << tableVars, progVars, pubsub, chan, gfx >>

CallReserve(name) ==
  /\ disp.op \in {"table", "wrap", "reserve", "remove"}
  /\ LET r == reserve(disp.table, name) IN
     disp' = [ op |-> "reserve", table |-> r.self, before |-> disp.table,
               name |-> name, ret |-> r.ret ]
  /\ UNCHANGED << tableVars, progVars, pubsub, chan, gfx >>

CallRemove(handle) ==
  /\ disp.op \in {"table", "wrap", "reserve", "remove"}
  /\ LET r == remove(disp.table, handle) IN
     disp' = [ op |-> "remove", table |-> r.self, before |-> disp.table,
               handle |-> handle, ret |-> r.ret ]
  /\ UNCHANGED << tableVars, progVars, pubsub, chan, gfx >>

NextCalls ==
  \/ \E v \in Values, n \in Names, md \in Metadata : CallWrap(v, n, md)
  \/ \E n \in Names : CallReserve(n)
  \/ \E h \in HandleIds : CallRemove(h)

SpecCalls == InitCalls /\ [][NextCalls]_vars

\* C35: after any call every path of the path index before it is still in
\* the path index; after a wrap every path that its metadata does not declare
\* has the handle it had; reserve and remove leave the path index as it was.
C35_PathsStayBound ==
  /\ disp.op \in {"wrap", "reserve", "remove"}
       => \A p \in DOMAIN disp.before.path_deps_mappings :
            p \in DOMAIN disp.table.path_deps_mappings
  /\ disp.op = "wrap"
       => \A p \in DOMAIN disp.before.path_deps_mappings :
            (disp.md = None \/ p \notin Unwrap(disp.md))
              => disp.table.path_deps_mappings[p] = disp.before.path_deps_mappings[p]
  /\ disp.op \in {"reserve", "remove"}
       => disp.table.path_deps_mappings = disp.before.path_deps_mappings

\* a name that owned p1 was wrapped again with metadata declaring p2 only:
\* p1 is still bound to its handle
C35_Witness ==
  /\ disp.op = "wrap"
  /\ ask(disp.before, disp.name).ret = Some(disp.ret)
  /\ disp.md = Some({"p2"})
  /\ MapGet(disp.before.path_deps_mappings, "p1") = Some(disp.ret)
  /\ MapGet(disp.before.path_deps_mappings, "p2") # Some(disp.ret)
  /\ MapGet(disp.table.path_deps_mappings, "p1") = Some(disp.ret)
  /\ MapGet(disp.table.path_deps_mappings, "p2") = Some(disp.ret)

\* C36: after wrap(value, name, metadata) every other name has the handle and
\* the value it had, the counter is one more when name was unbound and the
\* same when it was bound, and without metadata the path index is as it was.
C36_WrapFrame ==
  disp.op = "wrap" =>
    /\ \A o \in Names \ {disp.name} :
         /\ ask(disp.table, o).ret = ask(disp.before, o).ret
         /\ IsSome(ask(disp.before, o).ret)
              => get(disp.table, Unwrap(ask(disp.before, o).ret)).ret
                   = get(disp.before, Unwrap(ask(disp.before, o).ret)).ret
    /\ disp.table.next_handle
         = IF IsSome(ask(disp.before, disp.name).ret)
           THEN disp.before.next_handle
           ELSE disp.before.next_handle + 1
    /\ disp.md = None => disp.table.path_deps_mappings = disp.before.path_deps_mappings

\* a wrap without metadata bound a new name while another name holds a value
\* and owns a path
C36_Witness ==
  /\ disp.op = "wrap"
  /\ disp.md = None
  /\ ask(disp.before, disp.name).ret = None
  /\ disp.table.next_handle = disp.before.next_handle + 1
  /\ \E o \in Names \ {disp.name} :
       /\ IsSome(ask(disp.before, o).ret)
       /\ IsSome(get(disp.table, Unwrap(ask(disp.before, o).ret)).ret)
       /\ Unwrap(ask(disp.before, o).ret) \in Range(disp.table.path_deps_mappings)

\* C37: while the entity system runs it holds a clone of its own address, so
\* recv on its mailbox in Listening never returns None, and every step that
\* takes it to Terminating receives a Kill message from its mailbox.
C37_MailboxNeverClosed ==
  [][ /\ (thread["entity"] = "running" /\ entity_state = "Listening")
         => /\ "entity" \in EntityAddrHolders
            /\ LET r == MsgQueue_recv(queue, "entity", EntityAddrHolders)
               IN r.blocks \/ IsSome(r.ret)
      /\ (entity_state # "Terminating" /\ entity_state' = "Terminating")
         => /\ entity_state = "Listening"
            /\ queue["entity"] # << >>
            /\ Head(queue["entity"]) = Kill
            /\ kill_seen'["entity"] ]_vars

\* the runtime thread has ended, dropping its clone of the entity address,
\* while the entity system listens on an empty mailbox: recv blocks
C37_Witness ==
  /\ Running("entity")
  /\ entity_state = "Listening"
  /\ thread["runtime"] # "running"
  /\ queue["entity"] = << >>
  /\ MsgQueue_recv(queue, "entity", EntityAddrHolders).blocks

\* ------------------------------------------------------------------------
\* JSONShaderDecoder on one shader description root/x.shd.json, the program
\* running in the directory that holds root. A path is the sequence of its
\* components, relative to the working directory.
\* ------------------------------------------------------------------------
StageOrder == << "vert_shader", "tess_ctrl_shader", "tess_eval_shader", "geo_shader", "frag_shader" >>

\* the description: the shader's name and one path per stage, as written
ShaderInfo ==
  [ name |-> 1,
    vert_shader |-> << "x.vert" >>,
    tess_ctrl_shader |-> << "x.tesc" >>,
    tess_eval_shader |-> << "x.tese" >>,
    geo_shader |-> << "x.geom" >>,
    frag_shader |-> << "x.frag" >> ]

\* Path::parent of the description root/x.shd.json
ShaderDir == << "root" >>

\* The body of ResourceManager::resource_to_relative_path is not part of the
\* sources; its call sites pass the description's directory and a stage path.
\* Both a resolution under that directory and one that returns the path as
\* written are modelled.

resource_to_relative_path(mode, dir, path) ==
  IF mode = "under_parent" THEN dir \o path ELSE path

\* Path::is_file
is_file(fs, path) == path \in DOMAIN fs /\ fs[path] # "absent"

\* one stage of Shader::load_from_file: the file it reads, and the stage data
\* or the error
load_stage(fs, mode, st) ==
  LET file == resource_to_relative_path(mode, ShaderDir, ShaderInfo[st]) IN
  IF is_file(fs, file)
  THEN IF fs[file] = "glsl" THEN [ err |-> None, data |-> Some(file), read |-> {file} ]
       ELSE [ err |-> Some("GLSLError"), data |-> None, read |-> {file} ]
  ELSE IF st = "vert_shader" THEN [ err |-> Some("MissingVertexShader"), data |-> None, read |-> {} ]
  ELSE IF st = "frag_shader" THEN [ err |-> Some("MissingFragmentShader"), data |-> None, read |-> {} ]
  ELSE [ err |-> None, data |-> None, read |-> {} ]

\* Shader::load_from_file: the stages in order, the first error returned
RECURSIVE load_stages(_, _, _, _)
load_stages(fs, mode, i, shader) ==
  IF i > Len(StageOrder) THEN [ err |-> None, shader |-> shader ]
  ELSE LET r == load_stage(fs, mode, StageOrder[i]) IN
       IF IsSome(r.err) THEN [ err |-> r.err, shader |-> shader ]
       ELSE load_stages(fs, mode, i + 1, [shader EXCEPT ![StageOrder[i]] = r.data])

Shader_load_from_file(fs, mode) ==
  load_stages(fs, mode, 1, [st \in Range(StageOrder) |-> None])

\* the dependency list JSONShaderDecoder::load_from_file builds
JSONShaderDecoder_deps(fs, shader) ==
  {ShaderInfo["vert_shader"], ShaderInfo["frag_shader"]}
    \cup {ShaderInfo[st] : st \in {o \in {"tess_ctrl_shader", "tess_eval_shader", "geo_shader"} : is_file(fs, ShaderInfo[o])}}

\* JSONShaderDecoder::load_from_file
JSONShaderDecoder_load_from_file(rs, fs, mode) ==
  LET l == Shader_load_from_file(fs, mode) IN
  IF IsSome(l.err)
  THEN [ ret |-> "Err", err |-> l.err, resources |-> rs, events |-> << >>, shader |-> l.shader ]
  ELSE LET entity == [kind |-> "Shader", stages |-> l.shader]
           w == wrap(rs, entity, ShaderInfo.name, Some(JSONShaderDecoder_deps(fs, l.shader)))
       IN [ ret |-> "Ok", err |-> None, resources |-> w.self,
            events |-> << Loaded(w.ret, entity) >>, shader |-> l.shader ]


InitShader ==
  /\ TableInit
  /\ ProgInit(DistinctUIDs, {})
  /\ UnitsIdle
  /\ pubsub = [ op |-> "idle" ]
  /\ LET \* the stage files that may exist, in the working directory and in root
         files == {ShaderInfo[st] : st \in Range(StageOrder)}
                    \cup {ShaderDir \o ShaderInfo[st] : st \in Range(StageOrder)}
     IN \E mode \in {"under_parent", "as_written"},
           fs \in [files -> {"absent", "glsl", "invalid"}] :
          /\ \A f \in files : Len(f) = 1 => fs[f] # "invalid"
          /\ disp = [ op |-> "shader", mode |-> mode, fs |-> fs ]

ShaderDecode ==
  /\ disp.op = "shader"
  /\ LET r == JSONShaderDecoder_load_from_file(ResourceManager_new, disp.fs, disp.mode) IN
     disp' = [ op |-> "decoded", mode |-> disp.mode, fs |-> disp.fs, ret |-> r.ret,
               err |-> r.err, resources |-> r.resources, events |-> r.events,
               shader |-> r.shader ]
  /\ UNCHANGED << tableVars, progVars, pubsub, chan, gfx >>

NextShader == ShaderDecode

SpecShader == InitShader /\ [][NextShader]_vars

ParameterFiles ==
  LET RECURSIVE Entries(_)
      Entries(n) ==
        IF n = 0 THEN {<< >>}
        ELSE LET shorter == Entries(n - 1) IN
             shorter \cup {Append(es, << k, v >>) :
                             es \in {x \in shorter : Len(x) = n - 1}, k \in Names, v \in Values}
  IN { [ well_formed |-> TRUE, params |-> es ] :
         es \in {x \in Entries(NumNames) :
                   \A i, j \in 1 .. Len(x) : x[i][1] = x[j][1] => i = j} }
       \cup { [ well_formed |-> FALSE, params |-> << >> ] }

\* the loop of ParameterDecoder::load_from_file over the entries from the
\* i-th on: wrap the entry under its name, publish its event
RECURSIVE ParameterDecoder_wrap_entries(_, _, _, _, _)
ParameterDecoder_wrap_entries(rs, events, wrapped, params, i) ==
  IF i > Len(params) THEN [ resources |-> rs, events |-> events, wrapped |-> wrapped ]
  ELSE LET entity == [kind |-> "Parameter", constant |-> params[i][2]]
           w == wrap(rs, entity, params[i][1], None)
       IN ParameterDecoder_wrap_entries(w.self, Append(events, Loaded(w.ret, entity)),
                                        Append(wrapped, params[i][1]), params, i + 1)

\* ParameterDecoder::load_from_file
ParameterDecoder_load_from_file(rs, file) ==
  IF Parameter_load_from_file(file) = "Ok"
  THEN LET r == ParameterDecoder_wrap_entries(rs, << >>, << >>, file.params, 1) IN
       [ ret |-> "Ok", err |-> None, resources |-> r.resources, events |-> r.events,
         wrapped |-> r.wrapped ]
  ELSE [ ret |-> "Err", err |-> Some(IF file.well_formed THEN "NoData" ELSE "JSONError"), resources |-> rs,
         events |-> << >>, wrapped |-> << >> ]

InitParameters ==
  /\ TableInit
  /\ ProgInit(DistinctUIDs, {})
  /\ UnitsIdle
  /\ pubsub = [ op |-> "idle" ]
  /\ disp = [ op |-> "parameters", resources |-> ResourceManager_new ]

DecodeParameters(file) ==
  /\ disp.op \in {"parameters", "decoded"}
  /\ LET r == ParameterDecoder_load_from_file(disp.resources, file) IN
     disp' = [ op |-> "decoded", file |-> file, before |-> disp.resources,
               resources |-> r.resources, ret |-> r.ret, err |-> r.err,
               events |-> r.events, wrapped |-> r.wrapped ]
  /\ UNCHANGED << tableVars, progVars, pubsub, chan, gfx >>

NextParameters == \E file \in ParameterFiles : DecodeParameters(file)

SpecParameters == InitParameters /\ [][NextParameters]_vars

\* C39: decoding a parameter file that parses to zero entries returns the
\* error NoData, leaves the table as it was and publishes nothing; decoding a
\* file that parses to n >= 1 entries returns Ok, wraps the name of each entry
\* exactly once, leaves each name bound to a handle holding its entry, and
\* publishes n events, one per entry.
C39_ParameterFile ==
  (disp.op = "decoded" /\ disp.file.well_formed) =>
    LET n == Len(disp.file.params) IN
    /\ n = 0 => /\ disp.ret = "Err"
                /\ disp.err = Some("NoData")
                /\ disp.resources = disp.before
                /\ disp.events = << >>
    /\ n >= 1 => /\ disp.ret = "Ok"
                 /\ disp.wrapped = [i \in 1 .. n |-> disp.file.params[i][1]]
                 /\ \A i, j \in 1 .. n : disp.wrapped[i] = disp.wrapped[j] => i = j
                 /\ Len(disp.events) = n
                 /\ \A i \in 1 .. n :
                      LET h == ask(disp.resources, disp.file.params[i][1]).ret IN
                      /\ IsSome(h)
                      /\ get(disp.resources, Unwrap(h)).ret = Some([kind |-> "Parameter", constant |-> disp.file.params[i][2]])
                      /\ disp.events[i] = Loaded(Unwrap(h), [kind |-> "Parameter", constant |-> disp.file.params[i][2]])

\* a file with no entry was decoded after a file with two entries had filled
\* the table: NoData, the table untouched, nothing published
C39_Witness ==
  /\ disp.op = "decoded"
  /\ disp.file.well_formed
  /\ disp.file.params = << >>
  /\ disp.ret = "Err"
  /\ disp.before.next_handle = 2
  /\ disp.resources = disp.before
  /\ disp.events = << >>

====
